---- MODULE Spec2Model ----
(***************************************************************************)
(* Model of the portfolio optimisation / concentration-repair core of the  *)
(* financial-advisor repository: src/advanced/api_fastapi/main.py and the  *)
(* CVaR optimiser of src/scripts/bench_compare_mv_cvar.py.                 *)
(*                                                                         *)
(* Request weights are exact rationals k/Den, held as the integer k; a     *)
(* solution is a vector of rationals k[i]/(q * Den), held as the integers  *)
(* q and k.  The convex solver backends (cvxpy) are the environment: a     *)
(* backend either answers with a status and, when the status is optimal,   *)
(* the exact minimiser of the formulated problem over the reals, or        *)
(* raises, or never answers.                                               *)
(***************************************************************************)
EXTENDS Integers, Sequences, FiniteSets, TLC

\* Resolution of the request values: Den = Scale * lcm(1,2,3), so 1/n is a
\* multiple of 1/Den for n <= 3.
Scale == 2

Den == Scale * 2 * 3

\* The asset identifiers requests are drawn from (dict keys, in insertion order).
AssetUniverse == <<"A", "B", "C">>

MaxN == Len(AssetUniverse)

AssetSet(n) == {AssetUniverse[i] : i \in 1..n}

IndexOf(a) == CHOOSE i \in 1..MaxN : AssetUniverse[i] = a

\* ---------------------------------------------------------------- helpers

RECURSIVE SumSeq(_)
SumSeq(s) == IF s = <<>> THEN 0 ELSE Head(s) + SumSeq(Tail(s))

RECURSIVE SumOver(_, _)
SumOver(w, S) ==
    IF S = {} THEN 0
    ELSE LET i == CHOOSE x \in S : TRUE IN w[i] + SumOver(w, S \ {i})

MinOf(S) == CHOOSE x \in S : \A y \in S : x <= y

MaxOf(S) == CHOOSE x \in S : \A y \in S : x >= y

AbsOf(x) == IF x < 0 THEN 0 - x ELSE x

RECURSIVE GCD(_, _)
GCD(a, b) == IF b = 0 THEN a ELSE GCD(b, a % b)

\* The greatest common divisor of g and of the values of f on S.
RECURSIVE GCDOver(_, _, _)
GCDOver(f, S, g) ==
    IF S = {} \/ g = 1 THEN g
    ELSE LET i == CHOOSE x \in S : TRUE
         IN GCDOver(f, S \ {i}, GCD(AbsOf(f[i]), g))

\* a / b <= c / d for b, d > 0, by comparing the integer parts and then the
\* reciprocals of the fractional parts.
RECURSIVE FracLeq(_, _, _, _)
FracLeq(a, b, c, d) ==
    IF a \div b # c \div d THEN a \div b < c \div d
    ELSE IF a % b = 0 THEN TRUE
    ELSE IF c % d = 0 THEN FALSE
    ELSE FracLeq(d, c % d, b, a % b)

\* x <= y for fractions [num, den].
Leq(x, y) == FracLeq(x.num, x.den, y.num, y.den)

\* Weights as the code holds them, a vector or a dict of floats: entry i is
\* the rational k[i] / (q * Den), with q > 0 and no factor shared by q and
\* every k[i], so that equal weights are equal records.
Weights(k, q) ==
    CHOOSE w \in {[q |-> q \div g, k |-> [i \in DOMAIN k |-> k[i] \div g]] :
                    g \in {GCDOver(k, DOMAIN k, q)}} : TRUE

\* Weights that are whole multiples of 1/Den.
Exact(k) == [q |-> 1, k |-> k]

\* A Python Optional[dict]: None, or a dict (a function on its keys).
None == [isNone |-> TRUE, val |-> <<>>]

Dict(f) == [isNone |-> FALSE, val |-> f]

\* Python truthiness of an Optional[dict]: None and {} are falsy.
Truthy(d) == ~d.isNone /\ DOMAIN d.val # {}

\* The elements of a list.
SetOf(list) == {list[k] : k \in DOMAIN list}

\* Python `a or b`.
PyOr(a, b) == IF Truthy(a) THEN a ELSE b

\* dict.get(key) == value (a missing key gives None, equal to no group name).
GetIs(d, key, value) == key \in DOMAIN d.val /\ d.val[key] = value

\* ------------------------------------------- binary64 arithmetic (float64)
\* weights.values() are Python floats and np.sum(weight_array**2), 1 / hhi
\* are float64 operations: each result is the exact result rounded to the
\* nearest value with a 53-bit significand, ties to even.  (Exponent range
\* and signs are left out: the values here are non-negative and near 1.)
\*
\* Natural numbers of any size: digits in base 2^15, least significant
\* first, the last digit non-zero; zero is the empty sequence.
Base == 32768

BaseBits == 15

RECURSIVE BigOf(_)
BigOf(n) == IF n = 0 THEN <<>> ELSE <<n % Base>> \o BigOf(n \div Base)

RECURSIVE Strip(_)
Strip(a) ==
    IF a = <<>> \/ a[Len(a)] # 0 THEN a ELSE Strip(SubSeq(a, 1, Len(a) - 1))

RECURSIVE BigAddCarry(_, _, _)
BigAddCarry(a, b, c) ==
    IF a = <<>> /\ b = <<>> THEN BigOf(c)
    ELSE LET x == IF a = <<>> THEN 0 ELSE Head(a)
             y == IF b = <<>> THEN 0 ELSE Head(b)
             s == x + y + c
         IN <<s % Base>> \o BigAddCarry(IF a = <<>> THEN a ELSE Tail(a),
                                        IF b = <<>> THEN b ELSE Tail(b),
                                        s \div Base)

BigAdd(a, b) == BigAddCarry(a, b, 0)

\* a - b for a >= b
RECURSIVE BigSubBorrow(_, _, _)
BigSubBorrow(a, b, c) ==
    IF a = <<>> THEN <<>>
    ELSE LET y == IF b = <<>> THEN 0 ELSE Head(b)
             d == Head(a) - y - c
         IN <<d % Base>> \o BigSubBorrow(Tail(a),
                                         IF b = <<>> THEN b ELSE Tail(b),
                                         IF d < 0 THEN 1 ELSE 0)

BigSub(a, b) == Strip(BigSubBorrow(a, b, 0))

\* a <= b
BigLeq(a, b) ==
    \/ Len(a) < Len(b)
    \/ /\ Len(a) = Len(b)
       /\ \/ a = b
          \/ LET i == CHOOSE j \in 1..Len(a) :
                        a[j] # b[j] /\ \A k \in (j + 1)..Len(a) : a[k] = b[k]
             IN a[i] < b[i]

\* a * k + c for a digit k
RECURSIVE BigMulDigit(_, _, _)
BigMulDigit(a, k, c) ==
    IF a = <<>> THEN BigOf(c)
    ELSE LET p == Head(a) * k + c
         IN <<p % Base>> \o BigMulDigit(Tail(a), k, p \div Base)

\* Every intermediate value below is bound by a set constructor, so that it
\* is computed once.
RECURSIVE BigMul(_, _)
BigMul(a, b) ==
    IF a = <<>> \/ b = <<>> THEN <<>>
    ELSE CHOOSE p \in {BigAdd(Strip(BigMulDigit(b, Head(a), 0)),
                              IF rest = <<>> THEN rest ELSE <<0>> \o rest) :
                          rest \in {BigMul(Tail(a), b)}} : TRUE

Pow2(s) == [i \in 1..(s \div BaseBits) |-> 0] \o <<2 ^ (s % BaseBits)>>

\* a * 2^s
Shift(a, s) == BigMul(a, Pow2(s))

\* a divided by 2^t, for t < BaseBits
ShiftRight(a, t) ==
    Strip([j \in 1..Len(a) |->
             a[j] \div 2 ^ t
               + (IF j < Len(a) THEN (a[j + 1] % 2 ^ t) * 2 ^ (BaseBits - t)
                  ELSE 0)])

BitLen(a) ==
    IF a = <<>> THEN 0
    ELSE (Len(a) - 1) * BaseBits
           + (CHOOSE k \in 1..BaseBits :
                 2 ^ (k - 1) <= a[Len(a)] /\ a[Len(a)] < 2 ^ k)

IsOdd(a) == a # <<>> /\ Head(a) % 2 = 1

\* a divided by 2^t, for any t
DropBits(a, t) ==
    IF t \div BaseBits >= Len(a) THEN <<>>
    ELSE ShiftRight(SubSeq(a, t \div BaseBits + 1, Len(a)), t % BaseBits)

\* The quotient is produced StepBits bits at a time.
StepBits == 4

\* <<quotient, remainder>> of r by b, from bit i down, where d = b * 2^i and
\* r < d * 2^StepBits.
RECURSIVE BigDivLoop(_, _, _, _)
BigDivLoop(r, d, i, q) ==
    IF i < 0 THEN <<q, r>>
    ELSE CHOOSE qr \in
           {BigDivLoop(BigSub(r, Strip(BigMulDigit(d, g, 0))),
                       ShiftRight(d, StepBits), i - StepBits,
                       BigAddCarry(BigMulDigit(q, 2 ^ StepBits, 0), <<>>, g)) :
              g \in {Cardinality({h \in 1..(2 ^ StepBits - 1) :
                                    BigLeq(Strip(BigMulDigit(d, h, 0)), r)})}} :
             TRUE

BigDivMod(a, b) ==
    LET bits == IF BitLen(a) > BitLen(b) THEN BitLen(a) - BitLen(b) ELSE 0
    IN CHOOSE qr \in
         {BigDivLoop(n, Shift(d, k), k, <<>>) :
            n \in {a}, d \in {b},
            k \in {StepBits * (bits \div StepBits)}} : TRUE

\* A binary64 value m * 2^e, m odd (or zero with e = 0).
Canon(m, e) ==
    IF m = <<>> THEN [m |-> m, e |-> 0]
    ELSE LET j == CHOOSE i \in 1..Len(m) :
                     m[i] # 0 /\ \A k \in 1..(i - 1) : m[k] = 0
             t == CHOOSE u \in 0..(BaseBits - 1) :
                     m[j] % 2 ^ (u + 1) = 2 ^ u
         IN [m |-> ShiftRight(SubSeq(m, j, Len(m)), t),
             e |-> e + BaseBits * (j - 1) + t]

Precision == 53

\* The binary64 nearest to (q + f) * 2^e, ties to even, where q has at
\* least Precision bits and f in [0, 1) is zero iff exact.
RoundBits(q, exact, e) ==
    LET t == BitLen(q) - Precision
    IN CHOOSE res \in
         {LET rem  == BigSub(q, Shift(top, t))
              half == Pow2(t - 1)
              up   == IF t = 0 THEN FALSE
                      ELSE IF rem = half /\ exact THEN IsOdd(top)
                      ELSE BigLeq(half, rem)
          IN Canon(IF up THEN BigAdd(top, <<1>>) ELSE top, e + t) :
            top \in {DropBits(q, t)}} : TRUE

\* The binary64 nearest to a / b, ties to even: the quotient to Precision + 1
\* or Precision + 2 bits, then rounded.
RoundDiv(a, b) ==
    IF a = <<>> THEN Canon(a, 0)
    ELSE LET s == Precision + 1 - BitLen(a) + BitLen(b)
         IN CHOOSE res \in
              {RoundBits(qr[1], qr[2] = <<>>, -s) :
                 qr \in {BigDivMod(IF s >= 0 THEN Shift(a, s) ELSE a,
                                   IF s >= 0 THEN b ELSE Shift(b, -s))}} : TRUE

\* The binary64 nearest to m * 2^e.
RoundScaled(m, e) ==
    IF BitLen(m) <= Precision THEN Canon(m, e) ELSE RoundBits(m, TRUE, e)

\* The float k / d of two non-negative integers.
FloatOf(k, d) == RoundDiv(BigOf(k), BigOf(d))

FloatMul(x, y) ==
    CHOOSE z \in {RoundScaled(p, x.e + y.e) : p \in {BigMul(x.m, y.m)}} : TRUE

FloatAdd(x, y) ==
    LET e == IF x.e < y.e THEN x.e ELSE y.e
    IN CHOOSE z \in {RoundScaled(sum, e) :
                        sum \in {BigAdd(Shift(x.m, x.e - e),
                                        Shift(y.m, y.e - e))}} : TRUE

FloatRecip(x) ==
    IF x.e >= 0 THEN RoundDiv(<<1>>, Shift(x.m, x.e))
    ELSE RoundDiv(Pow2(-x.e), x.m)

\* Left-to-right sum, as np.sum adds fewer than 8 elements.
RECURSIVE FloatSum(_)
FloatSum(xs) ==
    IF xs = <<>> THEN FloatOf(0, 1)
    ELSE CHOOSE z \in {FloatAdd(before, xs[Len(xs)]) :
                          before \in {FloatSum(SubSeq(xs, 1, Len(xs) - 1))}} : TRUE

FloatZero == FloatOf(0, 1)

FloatOne == FloatOf(1, 1)

\* x <= y
FloatLeq(x, y) ==
    LET e == IF x.e < y.e THEN x.e ELSE y.e
    IN BigLeq(Shift(x.m, x.e - e), Shift(y.m, y.e - e))

\* ------------------------------------------------------ compute_hhi (155-158)

\* Sum of squared weights, in units of 1/Den^2.
compute_hhi(weights) ==
    LET S == DOMAIN weights
        sq == [a \in S |-> weights[a] * weights[a]]
    IN SumOver(sq, S)

\* The exact sum of squared weights of a weights record, as a fraction in
\* units of 1/Den^2.
HHIOf(w) == [num |-> compute_hhi(w.k), den |-> w.q * w.q]

\* A dict of weights as the request body gives it: `order` lists the keys in
\* insertion order; the value of key a is k[a] / Den + ulps[a] * 2^-Precision
\* (2^-Precision is the spacing of the binary64 values in [0.5, 1)).
FineDict(order, k, ulps) == [order |-> order, k |-> k, ulps |-> ulps]

\* A dict whose values are multiples of 1/Den.
OrderedDict(order, k) == FineDict(order, k, [a \in DOMAIN k |-> 0])

\* Den * 2^Precision, the denominator over which every value of a dict is an
\* integer.
FineDen == Shift(BigOf(Den), Precision)

\* The value of key a, as its numerator over FineDen.
ExactValue(weights, a) ==
    LET coarse == Shift(BigOf(weights.k[a]), Precision)
        fine == BigOf(Den * (IF weights.ulps[a] < 0 THEN 0 - weights.ulps[a]
                             ELSE weights.ulps[a]))
    IN IF weights.ulps[a] < 0 THEN BigSub(coarse, fine)
       ELSE BigAdd(coarse, fine)

\* list(weights.values()): the values in insertion order, each the binary64
\* nearest to the value the body gives (k / Den when ulps is 0).
Values(weights) ==
    [j \in 1..Len(weights.order) |->
        LET a == weights.order[j]
        IN IF weights.ulps[a] = 0 THEN FloatOf(weights.k[a], Den)
           ELSE RoundDiv(ExactValue(weights, a), FineDen)]

FloatSquare(x) == CHOOSE p \in {FloatMul(w, w) : w \in {x}} : TRUE

\* Faulty variant: the weights are summed without being squared.
compute_hhi_float_unsquared(weights) ==
    CHOOSE hhi \in {FloatSum(weight_array) :
                      weight_array \in {Values(weights)}} : TRUE

\* The value compute_hhi returns: np.sum(weight_array**2) in binary64.
compute_hhi_float(weights) ==
    CHOOSE hhi \in
        {FloatSum([i \in 1..Len(weight_array) |-> FloatSquare(weight_array[i])]) :
            weight_array \in {Values(weights)}} : TRUE

\* -------------------------------------------------- problem formulation

\* w0 = np.array(list(weights.values()))
WeightArray(weights, n) ==
    [q |-> weights.q, k |-> [i \in 1..n |-> weights.k[AssetUniverse[i]]]]

\* cp.sum(w[group_assets]) <= cap
GroupConstraint(dim, g, group_assets, cap) ==
    [kind |-> "group_le", dim |-> dim, group |-> g, idx |-> group_assets,
     rhs |-> cap]

\* Faulty variant: a constraint is appended for every cap, matched or not.
RECURSIVE GroupConstraintListEveryCap(_, _, _, _, _)
GroupConstraintListEveryCap(dim, caps, mapping, n, todo) ==
    IF todo = {} THEN <<>>
    ELSE LET g == CHOOSE x \in todo : TRUE
             group_assets == {i \in 1..n : GetIs(mapping, AssetUniverse[i], g)}
         IN <<GroupConstraint(dim, g, group_assets, caps.val[g])>>
              \o GroupConstraintListEveryCap(dim, caps, mapping, n, todo \ {g})

\* The constraints appended by `for sector, cap in sector_caps.items()`, for
\* the keys of todo still to visit: one for each cap whose group has at
\* least one asset of the portfolio.
RECURSIVE GroupConstraintList(_, _, _, _, _)
GroupConstraintList(dim, caps, mapping, n, todo) ==
    IF todo = {} THEN <<>>
    ELSE LET g == CHOOSE x \in todo : TRUE
             group_assets == {i \in 1..n : GetIs(mapping, AssetUniverse[i], g)}
             rest == GroupConstraintList(dim, caps, mapping, n, todo \ {g})
         IN IF group_assets # {}
            THEN <<GroupConstraint(dim, g, group_assets, caps.val[g])>> \o rest
            ELSE rest

\* The constraints appended for one dimension: none unless both the caps and
\* the mapping are truthy.
GroupConstraintsAppended(dim, caps, mapping, n) ==
    IF Truthy(caps) /\ Truthy(mapping)
    THEN GroupConstraintList(dim, caps, mapping, n, DOMAIN caps.val)
    ELSE <<>>

GroupConstraints(dim, caps, mapping, n) ==
    LET appended == GroupConstraintsAppended(dim, caps, mapping, n)
    IN {appended[k] : k \in DOMAIN appended}

\* The sector constraints of the second implementation (test_hhi_repair.py
\* 75-83), which visits the sectors of the mapping and looks each up in the
\* caps.
RECURSIVE SectorConstraintListByMapping(_, _, _, _)
SectorConstraintListByMapping(sector_caps, sector_mapping, n, sectors) ==
    IF sectors = {} THEN <<>>
    ELSE LET sector == CHOOSE x \in sectors : TRUE
             sector_assets ==
                 {i \in 1..n : GetIs(sector_mapping, AssetUniverse[i], sector)}
             rest == SectorConstraintListByMapping(sector_caps, sector_mapping,
                                                   n, sectors \ {sector})
         IN IF sector \in DOMAIN sector_caps.val /\ sector_assets # {}
            THEN <<GroupConstraint("sector", sector, sector_assets,
                                   sector_caps.val[sector])>> \o rest
            ELSE rest

SectorConstraintsByMapping(sector_caps, sector_mapping, n) ==
    IF Truthy(sector_caps) /\ Truthy(sector_mapping)
    THEN SectorConstraintListByMapping(
             sector_caps, sector_mapping, n,
             {sector_mapping.val[a] : a \in DOMAIN sector_mapping.val})
    ELSE <<>>

\* Faulty variant: the per-asset cap is left out of the constraint list.
UncappedRepairConstraints(max_concentration) ==
    {[kind |-> "sum_eq", rhs |-> Den],
     [kind |-> "ge", rhs |-> 0]}

\* constraints = [sum(w) == 1, w >= 0, w <= max_concentration]
BaseRepairConstraints(max_concentration) ==
    {[kind |-> "sum_eq", rhs |-> Den],
     [kind |-> "ge", rhs |-> 0],
     [kind |-> "le", rhs |-> max_concentration]}

SectorConstraints(caps, mapping, n) == GroupConstraints("sector", caps, mapping, n)

CountryConstraints(caps, mapping, n) == GroupConstraints("country", caps, mapping, n)

\* The min-deviation problem of concentration_repair.
RepairProblem(r, sectorGlobal, countryGlobal) ==
    LET n == r.n
        sector_map == PyOr(r.sector_mapping, sectorGlobal)
        country_map == PyOr(r.country_mapping, countryGlobal)
    IN [objective |-> "min_deviation",
        n |-> n,
        w0 |-> WeightArray(r.weights, n),
        constraints |->
            BaseRepairConstraints(r.max_concentration)
                \cup SectorConstraints(r.sector_caps, sector_map, n)
                \cup CountryConstraints(r.country_caps, country_map, n)]

\* ---------------------------------------- mean_variance_optimize (237-271)

\* Membership test `key in constraints` of an Optional[dict].
HasKey(d, key) == Truthy(d) /\ key \in DOMAIN d.val

\* Faulty variant: the max_weight / min_weight overrides are not appended.
MVConstraintsNoOverrides(constraints) ==
    {[kind |-> "sum_eq", rhs |-> Den], [kind |-> "ge", rhs |-> 0]}

\* constraints_list = [sum(w) == 1, w >= 0] plus the max/min overrides.
MVConstraints(constraints) ==
    {[kind |-> "sum_eq", rhs |-> Den], [kind |-> "ge", rhs |-> 0]}
        \cup (IF HasKey(constraints, "max_weight")
              THEN {[kind |-> "le", rhs |-> constraints.val["max_weight"]]}
              ELSE {})
        \cup (IF HasKey(constraints, "min_weight")
              THEN {[kind |-> "ge", rhs |-> constraints.val["min_weight"]]}
              ELSE {})

\* Maximize mu'w - 0.5 * risk_aversion * w' sigma w.
MVProblem(r) ==
    [objective |-> "max_mv_utility",
     n |-> r.n,
     mu |-> r.mu,
     sigma |-> r.sigma,
     risk_aversion |-> r.risk_aversion,
     constraints |-> MVConstraints(r.constraints)]

\* ------------------------------ cvar_optimize (bench_compare_mv_cvar 46-79)

\* alpha = 0.05 as the rational AlphaNum / AlphaDen.
AlphaNum == 1

AlphaDen == 20

\* lambda_cvar of `expected_return - 3.0 * cvar`.
LambdaCVaR == 3

CVaRProblem(r) ==
    [objective |-> IF r.return_target.isNone THEN "max_return_minus_cvar"
                   ELSE "min_cvar",
     n |-> r.n,
     mu |-> r.mu,
     scenarios |-> r.scenarios,
     constraints |->
         {[kind |-> "sum_eq", rhs |-> Den], [kind |-> "ge", rhs |-> 0]}
             \cup (IF r.return_target.isNone THEN {}
                   ELSE {[kind |-> "return_ge", rhs |-> r.return_target.val]})]

\* ------------------------------------------------- the solver capability

Dot(u, v, n) == SumSeq([i \in 1..n |-> u[i] * v[i]])

\* w' sigma w
QuadForm(w, sigma, n) ==
    SumSeq([i \in 1..n |-> w[i] * Dot(sigma[i], w, n)])

\* sigma.shape == (n, n) for a matrix given as a list of rows.
IsSquare(sigma, n) == Len(sigma) = n /\ \A i \in 1..Len(sigma) : Len(sigma[i]) = n

\* The matrix without row i and column j.
WithoutRowCol(m, i, j) ==
    LET k == Len(m)
        row(a) == IF a < i THEN a ELSE a + 1
        col(b) == IF b < j THEN b ELSE b + 1
    IN [a \in 1..(k - 1) |-> [b \in 1..(k - 1) |-> m[row(a)][col(b)]]]

\* Determinant, by expansion along the first row.
RECURSIVE Det(_)
Det(m) ==
    IF Len(m) = 0 THEN 1
    ELSE SumSeq([j \in 1..Len(m) |->
                   (IF j % 2 = 1 THEN 1 ELSE 0 - 1)
                     * m[1][j] * Det(WithoutRowCol(m, 1, j))])

\* The rows and columns of m whose indices are in the set keep, in order.
Principal(m, keep) ==
    LET at(a) == CHOOSE i \in keep : Cardinality({h \in keep : h < i}) = a - 1
        k == Cardinality(keep)
    IN [a \in 1..k |-> [b \in 1..k |-> m[at(a)][at(b)]]]

\* What cvxpy checks of the matrix of cp.quad_form: symmetric when the atom
\* is built, positive semi-definite (every principal minor non-negative)
\* when the curvature of the objective is decided.
IsSymmetric(sigma) ==
    \A i, j \in 1..Len(sigma) : sigma[i][j] = sigma[j][i]

IsPSD(sigma) ==
    \A keep \in SUBSET (1..Len(sigma)) : Det(Principal(sigma, keep)) >= 0

\* Loss of scenario j: -(scenarios.T @ w)[j]
ScenarioLoss(p, w, j) ==
    0 - SumSeq([i \in 1..p.n |-> p.scenarios[i][j] * w[i]])

\* min over t of t + (1 / (alpha * S)) * sum(max(0, loss_j - t)), scaled by
\* AlphaNum * S; the minimum is attained at one of the scenario losses.
CVaRScaled(p, w) ==
    LET S == Len(p.scenarios[1])
        loss == [j \in 1..S |-> ScenarioLoss(p, w, j)]
        At(t) == AlphaNum * S * t
                   + AlphaDen * SumSeq([j \in 1..S |->
                                   IF loss[j] > t THEN loss[j] - t ELSE 0])
    IN MinOf({At(loss[j]) : j \in 1..S})

\* w[i] - w0[i], in units of 1 / (w.q * w0.q * Den).
Deviation(w, w0, i) == w.k[i] * w0.q - w0.k[i] * w.q

\* Faulty variant: the deviation enters the objective with the wrong sign.
CostDeviationNegated(p, w) ==
    CASE p.objective = "min_deviation" ->
           [num |-> 0 - SumSeq([i \in 1..p.n |->
                                   Deviation(w, p.w0, i) * Deviation(w, p.w0, i)]),
            den |-> (w.q * p.w0.q) * (w.q * p.w0.q)]
      [] p.objective = "max_mv_utility" ->
           [num |-> p.risk_aversion * QuadForm(w.k, p.sigma, p.n)
                      - 2 * Den * w.q * Dot(p.mu, w.k, p.n),
            den |-> w.q * w.q]
      [] p.objective = "min_cvar" ->
           [num |-> CVaRScaled(p, w.k), den |-> w.q]
      [] p.objective = "max_return_minus_cvar" ->
           [num |-> LambdaCVaR * CVaRScaled(p, w.k)
                      - AlphaNum * Len(p.scenarios[1]) * Dot(p.mu, w.k, p.n),
            den |-> w.q]

\* Faulty variant: the repair minimises the norm of w instead of its distance to w0.
CostIgnoringInput(p, w) ==
    CASE p.objective = "min_deviation" ->
           [num |-> SumSeq([i \in 1..p.n |-> w.k[i] * w.k[i]]),
            den |-> w.q * w.q]
      [] p.objective = "max_mv_utility" ->
           [num |-> p.risk_aversion * QuadForm(w.k, p.sigma, p.n)
                      - 2 * Den * w.q * Dot(p.mu, w.k, p.n),
            den |-> w.q * w.q]
      [] p.objective = "min_cvar" ->
           [num |-> CVaRScaled(p, w.k), den |-> w.q]
      [] p.objective = "max_return_minus_cvar" ->
           [num |-> LambdaCVaR * CVaRScaled(p, w.k)
                      - AlphaNum * Len(p.scenarios[1]) * Dot(p.mu, w.k, p.n),
            den |-> w.q]

\* Faulty variant: risk_aversion multiplies the return term instead of the risk term.
CostRiskAversionOnReturn(p, w) ==
    CASE p.objective = "min_deviation" ->
           [num |-> SumSeq([i \in 1..p.n |->
                               Deviation(w, p.w0, i) * Deviation(w, p.w0, i)]),
            den |-> (w.q * p.w0.q) * (w.q * p.w0.q)]
      [] p.objective = "max_mv_utility" ->
           [num |-> QuadForm(w.k, p.sigma, p.n)
                      - 2 * Den * w.q * p.risk_aversion * Dot(p.mu, w.k, p.n),
            den |-> w.q * w.q]
      [] p.objective = "min_cvar" ->
           [num |-> CVaRScaled(p, w.k), den |-> w.q]
      [] p.objective = "max_return_minus_cvar" ->
           [num |-> LambdaCVaR * CVaRScaled(p, w.k)
                      - AlphaNum * Len(p.scenarios[1]) * Dot(p.mu, w.k, p.n),
            den |-> w.q]

\* The quantity the backend minimises, as the fraction num / den.
Cost(p, w) ==
    CASE p.objective = "min_deviation" ->
           [num |-> SumSeq([i \in 1..p.n |->
                               Deviation(w, p.w0, i) * Deviation(w, p.w0, i)]),
            den |-> (w.q * p.w0.q) * (w.q * p.w0.q)]
      [] p.objective = "max_mv_utility" ->
           [num |-> p.risk_aversion * QuadForm(w.k, p.sigma, p.n)
                      - 2 * Den * w.q * Dot(p.mu, w.k, p.n),
            den |-> w.q * w.q]
      [] p.objective = "min_cvar" ->
           [num |-> CVaRScaled(p, w.k), den |-> w.q]
      [] p.objective = "max_return_minus_cvar" ->
           [num |-> LambdaCVaR * CVaRScaled(p, w.k)
                      - AlphaNum * Len(p.scenarios[1]) * Dot(p.mu, w.k, p.n),
            den |-> w.q]

Satisfies(p, w, c) ==
    CASE c.kind = "sum_eq" -> SumSeq(w.k) = c.rhs * w.q
      [] c.kind = "ge" -> \A i \in 1..p.n : w.k[i] >= c.rhs * w.q
      [] c.kind = "le" -> \A i \in 1..p.n : w.k[i] <= c.rhs * w.q
      [] c.kind = "group_le" -> SumOver(w.k, c.idx) <= c.rhs * w.q
      [] c.kind = "return_ge" -> Dot(p.mu, w.k, p.n) >= c.rhs * Den * w.q

\* w = cp.Variable(n) is a real vector.  The optimum of a convex problem over
\* the polytope of the constraints is a stationary point of the objective on
\* the polytope's plane, on one of its edges, or one of its vertices; these
\* points are the candidates, and the best feasible ones are the optimum.
\*
\* Every constraint bounds a sum of weights by a number, so the vertices are
\* whole multiples of the greatest common divisor of these numbers: they are
\* points of the lattice of that step.
TotalOf(p) == (CHOOSE c \in p.constraints : c.kind = "sum_eq").rhs

LatticeStep(p) ==
    LET bounds == {c \in p.constraints :
                     c.kind \in {"sum_eq", "ge", "le", "group_le"}}
        rhs == [c \in bounds |-> c.rhs]
    IN GCDOver(rhs, bounds, 0)

\* The vectors of length n with entries step * j, j from one step below 0 to
\* one step above total, that sum to total.
RECURSIVE LatticeVectors(_, _, _)
LatticeVectors(n, total, step) ==
    LET entries == {step * j : j \in (0 - 1)..(total \div step + 1)}
    IN IF n = 1
       THEN (IF total \in entries THEN {<<total>>} ELSE {})
       ELSE UNION {{<<a>> \o rest :
                      rest \in LatticeVectors(n - 1, total - a, step)} :
                     a \in entries}

Lattice(p) == LatticeVectors(p.n, TotalOf(p), LatticeStep(p))

\* The value of the objective at a lattice point.
ValueAt(p, u) == Cost(p, Exact(u)).num

\* The stationary point of a quadratic on the line u + t * d, from its values
\* c0, c1, c2 at t = 0, 1, 2: none unless the quadratic is strictly convex.
LineStationary(u, d, c0, c1, c2) ==
    LET curvature == 2 * (c2 - 2 * c1 + c0)
        t == c2 - 4 * c1 + 3 * c0
    IN IF curvature > 0
       THEN {Weights([i \in 1..Len(u) |-> curvature * u[i] + t * d[i]],
                     curvature)}
       ELSE {}

OnLine(p, u, d) ==
    UNION {LineStationary(u, d, c[1], c[2], c[3]) :
             c \in {<<ValueAt(p, u),
                      ValueAt(p, [i \in 1..p.n |-> u[i] + d[i]]),
                      ValueAt(p, [i \in 1..p.n |-> u[i] + 2 * d[i]])>>}}

\* The stationary point of a quadratic on the plane u + s * d + t * e, from
\* its values at (s, t) = (0,0), (1,0), (0,1), (2,0), (0,2), (1,1).
PlaneStationary(u, d, e, c) ==
    LET b11 == c[4] - 2 * c[2] + c[1]
        b22 == c[5] - 2 * c[3] + c[1]
        b12 == c[6] - c[2] - c[3] + c[1]
        a1 == 4 * c[2] - 3 * c[1] - c[4]
        a2 == 4 * c[3] - 3 * c[1] - c[5]
        det == b11 * b22 - b12 * b12
        s == a2 * b12 - a1 * b22
        t == a1 * b12 - a2 * b11
    IN IF b11 > 0 /\ det > 0
       THEN {Weights([i \in 1..Len(u) |->
                        2 * det * u[i] + s * d[i] + t * e[i]], 2 * det)}
       ELSE {}

OnPlane(p, u, d, e) ==
    UNION {PlaneStationary(u, d, e, c) :
             c \in {<<ValueAt(p, u),
                      ValueAt(p, [i \in 1..p.n |-> u[i] + d[i]]),
                      ValueAt(p, [i \in 1..p.n |-> u[i] + e[i]]),
                      ValueAt(p, [i \in 1..p.n |-> u[i] + 2 * d[i]]),
                      ValueAt(p, [i \in 1..p.n |-> u[i] + 2 * e[i]]),
                      ValueAt(p, [i \in 1..p.n |-> u[i] + d[i] + e[i]])>>}}

\* The sums of weights the constraints bound, each with its bound.
BoundedSums(p) ==
    UNION {IF c.kind \in {"ge", "le"}
           THEN {[idx |-> {i}, rhs |-> c.rhs] : i \in 1..p.n}
           ELSE IF c.kind = "group_le"
           THEN {[idx |-> c.idx, rhs |-> c.rhs]}
           ELSE {} : c \in p.constraints}

\* The lattice points at which the bound b is met with equality.
LatticeOn(p, b) == {u \in Lattice(p) : SumOver(u, b.idx) = b.rhs}

\* The direction that moves weight from entry j to entry i.
Direction(n, i, j) ==
    [h \in 1..n |-> IF h = i THEN 1 ELSE IF h = j THEN 0 - 1 ELSE 0]

\* The stationary points of the objective on the plane sum(w) = total
\* (a line for two assets) and on the line of each bound within it.
StationaryPoints(p) ==
    IF p.objective \notin {"min_deviation", "max_mv_utility"} THEN {}
    ELSE LET origin == [i \in 1..p.n |-> IF i = p.n THEN TotalOf(p) ELSE 0]
         IN CASE p.n = 1 -> {}
              [] p.n = 2 -> OnLine(p, origin, Direction(2, 1, 2))
              [] p.n = 3 ->
                   OnPlane(p, origin, Direction(3, 1, 3), Direction(3, 2, 3))
                     \cup UNION {LET on == LatticeOn(p, b)
                                 IN IF Cardinality(on) < 2 THEN {}
                                    ELSE LET u == CHOOSE x \in on : TRUE
                                             v == CHOOSE x \in on : x # u
                                         IN OnLine(p, u,
                                                   [i \in 1..p.n |->
                                                      v[i] - u[i]]) :
                                   b \in BoundedSums(p)}

\* The CVaR objectives are piecewise linear, with kinks where two scenarios
\* lose the same, and the return target bounds mu . w: the optimum is a point
\* at which n - 1 of these hyperplanes meet on the plane sum(w) = total.
\* A hyperplane a . x = b, x in units of 1/Den: a bound met with equality,
\* the return target met with equality, two scenarios losing the same.
Hyperplanes(p) ==
    LET S == Len(p.scenarios[1])
        Unit(h) == [i \in 1..p.n |-> IF i = h THEN 1 ELSE 0]
    IN {[a |-> [i \in 1..p.n |-> IF i \in s.idx THEN 1 ELSE 0], b |-> s.rhs] :
          s \in BoundedSums(p)}
         \cup {[a |-> [i \in 1..p.n |-> p.mu[i]], b |-> c.rhs * Den] :
                 c \in {x \in p.constraints : x.kind = "return_ge"}}
         \cup {[a |-> [h \in 1..p.n |->
                         ScenarioLoss(p, Unit(h), x[1])
                           - ScenarioLoss(p, Unit(h), x[2])],
                 b |-> 0] :
                 x \in {y \in (1..S) \X (1..S) : y[1] < y[2]}}

\* The solution of m x = rhs by Cramer's rule, if there is exactly one.
Intersection(m, rhs) ==
    LET n == Len(m)
        Replaced(j) ==
            [i \in 1..n |-> [h \in 1..n |-> IF h = j THEN rhs[i] ELSE m[i][h]]]
    IN UNION {IF det = 0 THEN {}
              ELSE {Weights([j \in 1..n |->
                               (IF det < 0 THEN 0 - 1 ELSE 1) * Det(Replaced(j))],
                            AbsOf(det))} : det \in {Det(m)}}

KinkPoints(p) ==
    IF p.objective \notin {"min_cvar", "max_return_minus_cvar"} THEN {}
    ELSE UNION {Intersection(<<[i \in 1..p.n |-> 1]>>
                                \o [i \in 1..(p.n - 1) |-> hs[i].a],
                             <<TotalOf(p)>>
                                \o [i \in 1..(p.n - 1) |-> hs[i].b]) :
                  hs \in [1..(p.n - 1) -> Hyperplanes(p)]}

Candidates(p) ==
    {Exact(u) : u \in Lattice(p)} \cup StationaryPoints(p) \cup KinkPoints(p)

FeasibleSet(p) ==
    {w \in Candidates(p) : \A c \in p.constraints : Satisfies(p, w, c)}

\* The optimum of the problem: the feasible candidates of least cost.
Minimisers(p) ==
    LET F == FeasibleSet(p)
        cost == [w \in F |-> Cost(p, w)]
    IN {w \in F : \A v \in F : Leq(cost[w], cost[v])}

\* What a backend can answer for problem p: status optimal with a minimiser
\* (only when one exists), a non-optimal status with no usable value, or an
\* exception raised out of problem.solve.  A mean-variance objective whose
\* matrix is not positive semi-definite is not a convex program: problem.solve
\* raises DCPError for it and reaches no backend.
BackendAnswers(p) ==
    IF p.objective = "max_mv_utility" /\ ~IsPSD(p.sigma)
    THEN {[kind |-> "raise", status |-> "DCPError", value |-> <<>>]}
    ELSE
    {[kind |-> "status", status |-> "optimal", value |-> w] : w \in Minimisers(p)}
        \cup (IF FeasibleSet(p) = {}
              THEN {[kind |-> "status", status |-> "infeasible", value |-> <<>>]}
              ELSE {})
        \cup {[kind |-> "status", status |-> "optimal_inaccurate", value |-> <<>>],
              [kind |-> "raise", status |-> "SolverError", value |-> <<>>]}

\* ------------------------------------------------------ solver cascades

\* solvers_to_try = [cp.CLARABEL, cp.SCS, cp.OSQP]
RepairSolvers == <<"CLARABEL", "SCS", "OSQP">>

\* problem.solve(solver=cp.ECOS)
MVSolvers == <<"ECOS">>

CVaRSolvers == <<"ECOS">>

SolversToTry(op) ==
    CASE op = "repair" -> RepairSolvers
      [] op = "mv" -> MVSolvers
      [] op = "cvar" -> CVaRSolvers

\* Faulty variant: np.ones(n), the division by n forgotten.
OnesNotNormalised(n) == Exact([i \in 1..n |-> Den])

\* np.ones(n) / n
EqualWeights(n) == Exact([i \in 1..n |-> Den \div n])

\* Faulty variant: the loop does not return on the first optimal status, it goes on
\* to the next backend while there is one.
AfterAttemptNoShortCircuit(op, i, a) ==
    IF i < Len(SolversToTry(op)) THEN "next_backend"
    ELSE IF a.kind = "status" /\ a.status = "optimal" THEN "return_solution"
    ELSE "fallback"

\* Faulty variant: only an exception moves on to the next backend; a non-optimal
\* status ends the cascade with the fallback.
AfterAttemptStatusIsFinal(op, i, a) ==
    IF a.kind = "status" /\ a.status = "optimal" THEN "return_solution"
    ELSE IF a.kind = "raise" /\ i < Len(SolversToTry(op)) THEN "next_backend"
    ELSE "fallback"

\* What the code does once backend number i of the list has answered a:
\* return the solution, try the next backend, or return the fallback.
AfterAttempt(op, i, a) ==
    IF a.kind = "status" /\ a.status = "optimal" THEN "return_solution"
    ELSE IF i < Len(SolversToTry(op)) THEN "next_backend"
    ELSE "fallback"

\* The value returned when a backend reported optimal: the repair builds
\* {asset: float(w.value[i])}, the optimisers return w.value.
SolutionValue(r, value) ==
    IF r.op = "repair"
    THEN [q |-> value.q, k |-> [a \in AssetSet(r.n) |-> value.k[IndexOf(a)]]]
    ELSE value

\* The value returned when no backend reported optimal: the repair returns
\* `weights`, the optimisers return np.ones(n) / n.
FallbackValue(r) ==
    IF r.op = "repair" THEN r.weights ELSE EqualWeights(r.n)

\* The log record written on each return path.
LogOf(op, path, a) ==
    CASE op = "repair" /\ path = "return_solution" -> "Concentration repair completed"
      [] op = "repair" /\ path = "fallback" -> "Optimization failed with all solvers"
      [] op = "mv" /\ path = "fallback" /\ a.kind = "status" ->
           "Optimization failed with status"
      [] op = "mv" /\ path = "fallback" /\ a.kind = "raise" ->
           "Mean-variance optimization failed"
      [] OTHER -> "none"

\* ------------------------------------------------------------- requests

\* Input weights are drawn from {0, 1/3, 1/2, 1}; they need not sum to 1.
WeightLevels == {0, Den \div 3, Den \div 2, Den}

\* Per-asset caps are drawn from {1/3, 1/2, 1}.
CapLevels == {Den \div 3, Den \div 2, Den}

RequestSectorMapping == Dict("A" :> "Tech" @@ "B" :> "Tech" @@ "C" :> "Fin")

RequestCountryMapping == Dict("A" :> "US" @@ "C" :> "US")

\* The group arguments of a repair request: none; a sector cap with its
\* mapping; the same with a cap on a sector no asset belongs to; a sector cap
\* left to the cached mapping; a country cap with its mapping; both kinds.
GroupChoices ==
    {[sector_caps |-> None, sector_mapping |-> None,
      country_caps |-> None, country_mapping |-> None],
     [sector_caps |-> Dict("Tech" :> Den \div 2),
      sector_mapping |-> RequestSectorMapping,
      country_caps |-> None, country_mapping |-> None],
     [sector_caps |-> Dict("Tech" :> Den \div 2 @@ "Energy" :> Den \div 3),
      sector_mapping |-> RequestSectorMapping,
      country_caps |-> None, country_mapping |-> None],
     [sector_caps |-> Dict("Tech" :> Den \div 2), sector_mapping |-> None,
      country_caps |-> None, country_mapping |-> None],
     [sector_caps |-> None, sector_mapping |-> None,
      country_caps |-> Dict("US" :> Den \div 2),
      country_mapping |-> RequestCountryMapping],
     [sector_caps |-> Dict("Tech" :> Den \div 2),
      sector_mapping |-> RequestSectorMapping,
      country_caps |-> Dict("US" :> Den \div 2),
      country_mapping |-> RequestCountryMapping]}

\* A portfolio of three unequal weights, the largest just above 1/2.
UnevenPortfolio ==
    LET a == Den \div 2 + 1
        c == Den \div 6
    IN ("A" :> a @@ "B" :> Den - a - c @@ "C" :> c)

\* Weight maps over the first 1..MaxN assets, of total at most 1.
WeightMaps ==
    {w \in UNION {[AssetSet(m) -> WeightLevels] : m \in 1..MaxN} :
       SumOver(w, DOMAIN w) <= Den}
        \cup {UnevenPortfolio}

RepairRequests ==
    {[op |-> "repair", n |-> Cardinality(DOMAIN w), weights |-> Exact(w),
      max_concentration |-> c,
      sector_caps |-> g.sector_caps, sector_mapping |-> g.sector_mapping,
      country_caps |-> g.country_caps, country_mapping |-> g.country_mapping] :
        w \in WeightMaps, c \in CapLevels, g \in GroupChoices}

\* Expected returns and covariances, in units of 1/100.
MuChoices == {<<5, 10, 15>>, <<10, 10, 10>>}

SigmaChoices ==
    {<<<<4, 0, 0>>, <<0, 4, 0>>, <<0, 0, 4>>>>,
     <<<<4, 2, 0>>, <<2, 4, 0>>, <<0, 0, 9>>>>}

RiskAversions == {1, 10}

\* The `constraints` dict of an optimisation request: omitted, either or both
\* overrides, and a max_weight too small for any portfolio of up to 3 assets.
MVConstraintChoices ==
    {None,
     Dict("max_weight" :> Den \div 2),
     Dict("min_weight" :> Den \div 6),
     Dict("max_weight" :> Den \div 2 @@ "min_weight" :> Den \div 6),
     Dict("max_weight" :> Den \div 6)}

Minor(m, n) == [i \in 1..n |-> SubSeq(m[i], 1, n)]

MVRequests ==
    {[op |-> "mv", n |-> n, mu |-> SubSeq(mu, 1, n), sigma |-> Minor(sg, n),
      risk_aversion |-> ra, constraints |-> cs] :
        n \in 1..MaxN, mu \in MuChoices, sg \in SigmaChoices,
        ra \in RiskAversions, cs \in MVConstraintChoices}

\* Optimisation requests with no risk aversion at all, on the first mu and
\* Sigma.
LowLambdaRequests ==
    {[op |-> "mv", n |-> n, mu |-> SubSeq(<<5, 10, 15>>, 1, n),
      sigma |-> Minor(<<<<4, 0, 0>>, <<0, 4, 0>>, <<0, 0, 4>>>>, n),
      risk_aversion |-> 0, constraints |-> cs] :
        n \in 1..MaxN, cs \in MVConstraintChoices}

\* Scenario matrices (assets x scenarios), in units of 1/100.
ScenarioChoices ==
    {<<<<0 - 10, 20>>, <<5, 5>>, <<0 - 20, 40>>>>,
     <<<<10, 0 - 5>>, <<0 - 5, 10>>, <<2, 2>>>>}

\* return_target, in units of 1/100: omitted; met by every portfolio; met by
\* some; met by none.
ReturnTargets ==
    {None} \cup {[isNone |-> FALSE, val |-> v] : v \in {5, 8, 100}}

CVaRRequests ==
    {[op |-> "cvar", n |-> n, mu |-> SubSeq(<<5, 10, 15>>, 1, n),
      scenarios |-> SubSeq(sc, 1, n), return_target |-> t] :
        n \in 1..MaxN, sc \in ScenarioChoices, t \in ReturnTargets}

Requests ==
    RepairRequests \cup MVRequests \cup LowLambdaRequests \cup CVaRRequests

\* ------------------------------------------- POST /optimize request bodies

AssetList(n) == SubSeq(AssetUniverse, 1, n)

\* expected_returns, in units of 1/100: one value per listed asset; the value
\* of the last listed asset missing; a value for an asset that is not listed.
ExpectedReturnChoices(n) ==
    LET er == "A" :> 5 @@ "B" :> 10 @@ "C" :> 15
    IN {[a \in AssetSet(m) |-> er[a]] : m \in {n - 1, n, n + 1} \cap 1..MaxN}

ZeroMatrix(n) == [i \in 1..n |-> [j \in 1..n |-> 0]]

\* covariance_matrix: valid ones; all zero; too small; not square; not
\* symmetric; symmetric but indefinite.
CovarianceChoices(n) ==
    {Minor(sg, n) : sg \in SigmaChoices}
        \cup {ZeroMatrix(n),
              ZeroMatrix(n - 1),
              [i \in 1..n |-> [j \in 1..(n - 1) |-> IF i = j THEN 4 ELSE 0]],
              Minor(<<<<4, 2, 0>>, <<1, 4, 0>>, <<0, 0, 9>>>>, n),
              Minor(<<<<1, 2, 0>>, <<2, 1, 0>>, <<0, 0, 1>>>>, n)}

OptimizeRequests ==
    {[assets |-> AssetList(n), expected_returns |-> er, covariance_matrix |-> cm,
      risk_aversion |-> 1, constraints |-> cs] :
        n \in 2..MaxN, er \in UNION {ExpectedReturnChoices(m) : m \in 2..MaxN},
        cm \in UNION {CovarianceChoices(m) : m \in 2..MaxN},
        cs \in {None, Dict("max_weight" :> Den \div 2)}}

\* ---------------------------------------- POST /risk-metrics request bodies

\* Six equal weights of 1/6.
SixEqualWeights ==
    OrderedDict(<<"A", "B", "C", "D", "E", "F">>,
                [a \in {"A", "B", "C", "D", "E", "F"} |-> Den \div 6])

\* Every order in which a body can list the keys S.
KeyOrders(S) ==
    {order \in [1..Cardinality(S) -> S] :
       \A i, j \in DOMAIN order : i # j => order[i] # order[j]}

\* A portfolio of two equal large weights and a small one: the binary64 sum
\* of its squares depends on the order in which they are added.
TwoLargeOneSmall ==
    LET a == Den \div 2 - 1
    IN ("A" :> a @@ "B" :> a @@ "C" :> Den - 2 * a)

\* Two weights around 1/2 that differ and sum to 1:
\* {A: 0.5000000000000001, B: 0.4999999999999999}, in both orders.
NearlyEqualHalves ==
    {FineDict(order, "A" :> Den \div 2 @@ "B" :> Den \div 2,
              "A" :> 1 @@ "B" :> 0 - 1) :
        order \in KeyOrders({"A", "B"})}

\* The empty portfolio, the weight maps of the repair requests and the
\* portfolio above, their keys in every order; six equal weights; the
\* nearly equal halves.
RiskWeightMaps ==
    UNION {{OrderedDict(order, w) : order \in KeyOrders(DOMAIN w)} :
             w \in {<<>>} \cup WeightMaps \cup {TwoLargeOneSmall}}
        \cup {SixEqualWeights} \cup NearlyEqualHalves

\* benchmark_weights: omitted, empty, or a benchmark sharing some keys only.
BenchmarkChoices ==
    {None, Dict(<<>>), Dict("A" :> Den), Dict("B" :> Den \div 2 @@ "D" :> Den \div 2)}

\* The request bodies.  A benchmark that is not empty comes with weights
\* that are multiples of 1/Den, the unit in which the active share is held.
RiskRequests ==
    {r \in {[weights |-> w, benchmark_weights |-> b] :
              w \in RiskWeightMaps, b \in BenchmarkChoices} :
       Truthy(r.benchmark_weights) =>
          \A a \in DOMAIN r.weights.ulps : r.weights.ulps[a] = 0}

\* Contents of docs/policies.yaml, docs/sector_map.csv, docs/country_map.csv.
FilePolicies == Dict("concentration_limits" :> "file")

FileSectorMap == Dict("A" :> "Fin" @@ "B" :> "Tech" @@ "C" :> "Tech")

FileCountryMap == Dict("B" :> "US" @@ "C" :> "US")

DefaultPolicies ==
    Dict("concentration_limits" :> "default" @@ "tilt_coefficients" :> "default"
           @@ "risk_limits" :> "default")

EmptyDict == Dict(<<>>)

\* ---------------------------------------------------------------- state

VARIABLES
    POLICIES,      \* module global, None until load_policies sets it
    SECTOR_MAP,    \* module global
    COUNTRY_MAP,   \* module global
    pc,            \* position of the call in progress
    req,           \* its arguments
    problem,       \* the cp.Problem it formulated
    idx,           \* index in solvers_to_try of the current backend
    tried,         \* the backends invoked so far, in order
    answer,        \* what the last backend that answered gave
    hung,          \* the backend invoked last will never answer
    result,        \* the value returned to the caller
    exit,          \* history: how the call ended; not part of the value returned
    log,           \* the last record the call logged
    chained,       \* the call repairs the result of the call before it
    prevResult,    \* that result
    prevExit,      \* and how the call that produced it ended
    loadReturn,    \* history: what the first load_policies call to return left
    endpoint,      \* the HTTP endpoint being served, if any
    request,       \* its request body
    response,      \* its response
    logger_instance,  \* mlflow_logger._logger_instance
    constructed,   \* the caller holds a PolicyEngine
    policies,      \* its `policies`, what yaml.safe_load gave for its file
    investments    \* the caller's list of Investment objects

globals == <<POLICIES, SECTOR_MAP, COUNTRY_MAP>>

call == <<pc, req, problem, idx, tried, answer, hung, result, exit, log>>

api == <<endpoint, request, response, logger_instance>>

engine == <<constructed, policies, investments>>

vars == <<POLICIES, SECTOR_MAP, COUNTRY_MAP, pc, req, problem, idx, tried,
          answer, hung, result, exit, log, chained, prevResult, prevExit,
          loadReturn, endpoint, request, response, logger_instance,
          constructed, policies, investments>>

NoRequest == [op |-> "none"]

NoProblem == [objective |-> "none"]

NoAnswer == [kind |-> "none", status |-> "none", value |-> <<>>]

NoResponse == [code |-> 0]

NeverReturned == [returned |-> FALSE]

Init ==
    /\ POLICIES = None
    /\ SECTOR_MAP = None
    /\ COUNTRY_MAP = None
    /\ pc = "idle"
    /\ req = NoRequest
    /\ problem = NoProblem
    /\ idx = 0
    /\ tried = <<>>
    /\ answer = NoAnswer
    /\ hung = FALSE
    /\ result = <<>>
    /\ exit = "none"
    /\ log = "none"
    /\ chained = FALSE
    /\ prevResult = <<>>
    /\ prevExit = "none"
    /\ loadReturn = NeverReturned
    /\ endpoint = "none"
    /\ request = NoRequest
    /\ response = NoResponse
    /\ logger_instance = None
    /\ constructed = FALSE
    /\ policies = None
    /\ investments = <<>>

\* What opening and parsing docs/policies.yaml can come to: read; read but
\* empty (yaml.safe_load gives None); FileNotFoundError; any other error.
YamlOutcomes == {"read", "empty", "not_found", "error"}

\* What pd.read_csv(...).set_index("symbol")[...] can come to on a mapping
\* file: read; FileNotFoundError; any other error (a column missing, say).
CsvOutcomes == {"read", "not_found", "error"}

\* What the three reads of one call would come to, each file on its own.
LoadOutcomes ==
    [yaml : YamlOutcomes, sector : CsvOutcomes, country : CsvOutcomes]

\* load_policies when POLICIES is set (92, 120): the globals stay and
\* POLICIES is returned.
Cached ==
    [POLICIES |-> POLICIES, SECTOR_MAP |-> SECTOR_MAP,
     COUNTRY_MAP |-> COUNTRY_MAP, returns |-> TRUE]

\* The except branch (110-118).
Defaults ==
    [POLICIES |-> DefaultPolicies, SECTOR_MAP |-> EmptyDict,
     COUNTRY_MAP |-> EmptyDict, returns |-> TRUE]

\* load_policies when POLICIES is None (93-120): the globals after the call,
\* and whether it returns (its value is then POLICIES) or raises.  The three
\* files are read in turn, each global assigned as its file is read;
\* FileNotFoundError at any of them installs the defaults, and any other
\* error propagates and leaves what was assigned before it.
AfterLoad(outcome) ==
    LET afterYaml ==
            [Cached EXCEPT !.POLICIES = IF outcome.yaml = "empty" THEN None
                                        ELSE FilePolicies]
        afterSector == [afterYaml EXCEPT !.SECTOR_MAP = FileSectorMap]
        afterCountry == [afterSector EXCEPT !.COUNTRY_MAP = FileCountryMap]
    IN IF outcome.yaml = "not_found" THEN Defaults
       ELSE IF outcome.yaml = "error" THEN [Cached EXCEPT !.returns = FALSE]
       ELSE IF outcome.sector = "not_found" THEN Defaults
       ELSE IF outcome.sector = "error"
            THEN [afterYaml EXCEPT !.returns = FALSE]
       ELSE IF outcome.country = "not_found" THEN Defaults
       ELSE IF outcome.country = "error"
            THEN [afterSector EXCEPT !.returns = FALSE]
       ELSE afterCountry

\* The history kept of load_policies: the globals and the value of the first
\* call that returned, and the value of the latest call that returned.
Remember(after) ==
    IF ~after.returns THEN loadReturn
    ELSE IF loadReturn.returned THEN [loadReturn EXCEPT !.last = after.POLICIES]
    ELSE [returned |-> TRUE,
          snapshot |-> <<after.POLICIES, after.SECTOR_MAP, after.COUNTRY_MAP>>,
          first |-> after.POLICIES,
          last |-> after.POLICIES]

\* A caller (GET /policies) invokes load_policies.
LoadPolicies ==
    /\ pc = "idle"
    /\ \E after \in IF POLICIES.isNone
                    THEN {AfterLoad(outcome) : outcome \in LoadOutcomes}
                    ELSE {Cached} :
         /\ POLICIES' = after.POLICIES
         /\ SECTOR_MAP' = after.SECTOR_MAP
         /\ COUNTRY_MAP' = after.COUNTRY_MAP
         /\ loadReturn' = Remember(after)
    /\ UNCHANGED <<call, chained, prevResult, prevExit, api, engine>>

\* The problem a call formulates before the cascade starts.
Formulate(r) ==
    CASE r.op = "repair" -> RepairProblem(r, SECTOR_MAP, COUNTRY_MAP)
      [] r.op = "mv" -> MVProblem(r)
      [] r.op = "cvar" -> CVaRProblem(r)

Start(r) ==
    /\ req' = r
    /\ problem' = Formulate(r)
    /\ idx' = 1
    /\ tried' = <<>>
    /\ answer' = NoAnswer
    /\ hung' = FALSE
    /\ result' = <<>>
    /\ exit' = "none"
    /\ log' = "none"
    /\ pc' = "cascade"
    /\ UNCHANGED globals

\* A caller invokes concentration_repair, mean_variance_optimize or
\* cvar_optimize.
Call ==
    /\ pc = "idle"
    /\ \E r \in Requests : Start(r)
    /\ chained' = FALSE
    /\ prevResult' = <<>>
    /\ prevExit' = "none"
    /\ UNCHANGED <<loadReturn, engine, api>>

\* problem.solve(solver=...) is entered for the current backend.
Invoke ==
    /\ pc = "cascade"
    /\ tried' = Append(tried, SolversToTry(req.op)[idx])
    /\ answer' = NoAnswer
    /\ pc' = "solving"
    /\ UNCHANGED <<globals, req, problem, idx, hung, result, exit, log,
                   chained, prevResult, prevExit, loadReturn, engine, api>>

\* The rest of the loop body and of the function once problem.solve is left.
\* The caller is given `result` alone; `exit` only records which of the
\* return statements was executed (main.py 225 and 277 after an optimal
\* status; 230, 280 and 284 otherwise).
Handle(a) ==
    LET path == AfterAttempt(req.op, idx, a)
    IN /\ answer' = a
       /\ CASE path = "return_solution" ->
                 /\ result' = SolutionValue(req, a.value)
                 /\ exit' = "return_solution"
                 /\ pc' = "done"
                 /\ idx' = idx
            [] path = "next_backend" ->
                 /\ idx' = idx + 1
                 /\ pc' = "cascade"
                 /\ UNCHANGED <<result, exit>>
            [] path = "fallback" ->
                 /\ result' = FallbackValue(req)
                 /\ exit' = "fallback"
                 /\ pc' = "done"
                 /\ idx' = idx
       /\ log' = IF path = "next_backend" THEN log ELSE LogOf(req.op, path, a)
       /\ UNCHANGED <<globals, req, problem, tried, hung, chained, prevResult,
                      prevExit, loadReturn, engine, api>>

\* The backend answers (a status, or an exception) and the code goes on.
BackendAnswer ==
    /\ pc = "solving"
    /\ ~hung
    /\ \E a \in BackendAnswers(problem) : Handle(a)

\* The backend never answers: problem.solve does not return.
BackendHang ==
    /\ pc = "solving"
    /\ ~hung
    /\ hung' = TRUE
    /\ UNCHANGED <<globals, pc, req, problem, idx, tried, answer, result, exit,
                   log, chained, prevResult, prevExit, loadReturn, engine, api>>

\* The caller has its value; the next call can start.
Return ==
    /\ \/ pc = "done" /\ endpoint = "none"
       \/ pc = "responded"
    /\ pc' = "idle"
    /\ req' = NoRequest
    /\ problem' = NoProblem
    /\ idx' = 0
    /\ tried' = <<>>
    /\ answer' = NoAnswer
    /\ result' = <<>>
    /\ exit' = "none"
    /\ log' = "none"
    /\ chained' = FALSE
    /\ prevResult' = <<>>
    /\ prevExit' = "none"
    /\ endpoint' = "none"
    /\ request' = NoRequest
    /\ response' = NoResponse
    /\ UNCHANGED <<globals, hung, loadReturn, engine, logger_instance>>

\* The caller calls concentration_repair again on the weights it was just
\* given, with the same keyword arguments.
Reapply ==
    /\ pc = "done"
    /\ endpoint = "none"
    /\ req.op = "repair"
    /\ ~chained
    /\ Start([req EXCEPT !.weights = result])
    /\ chained' = TRUE
    /\ prevResult' = result
    /\ prevExit' = exit
    /\ UNCHANGED <<loadReturn, engine, api>>

\* ----------------------------------------------- POST /optimize (315-368)

\* mu and sigma as optimize_portfolio hands them to mean_variance_optimize.
MVRequestOf(r) ==
    LET n == Len(r.assets)
    IN [op |-> "mv", n |-> n,
        mu |-> [i \in 1..n |-> r.expected_returns[r.assets[i]]],
        sigma |-> r.covariance_matrix,
        risk_aversion |-> r.risk_aversion,
        constraints |-> r.constraints]

\* The exception raised before problem.solve is reached, or "none": the
\* KeyError of the mu comprehension, the HTTPException of the shape check,
\* the ValueError cp.quad_form raises for a matrix that is not symmetric.
\* (The length check of mu can never fail: mu has one entry per listed asset.)
OptimizeFailure(r) ==
    LET n == Len(r.assets)
    IN IF \E i \in 1..n : r.assets[i] \notin DOMAIN r.expected_returns
       THEN "KeyError"
       ELSE IF ~IsSquare(r.covariance_matrix, n)
       THEN "Covariance matrix dimension mismatch"
       ELSE IF ~IsSymmetric(r.covariance_matrix)
       THEN "Quadratic form matrices must be symmetric/Hermitian"
       ELSE "none"

\* The `except Exception` of every endpoint: HTTPException(500, ...).
Failure(detail) == [code |-> 500, detail |-> detail]

\* sharpe_ratio = portfolio_return / portfolio_risk if portfolio_risk > 0
\* else 0.  The risk is the square root of the variance; the ratio is kept as
\* the pair (return, variance).
SharpeRatio(portfolio_return, variance) ==
    IF variance.num > 0
    THEN [isZero |-> FALSE, ret |-> portfolio_return, variance |-> variance]
    ELSE [isZero |-> TRUE, ret |-> [num |-> 0, den |-> 1],
          variance |-> [num |-> 0, den |-> 1]]

\* The body of the 200 response: the portfolio zipped from the assets and the
\* weights, and the metrics.  expected_return is a fraction in units of
\* 1/(100 * Den), volatility is given by its square in units of
\* 1/(100 * Den^2), concentration_hhi in units of 1/Den^2.
OptimizeResponse(r, optimal_weights) ==
    LET portfolio ==
            [q |-> optimal_weights.q,
             k |-> [a \in AssetSet(r.n) |-> optimal_weights.k[IndexOf(a)]]]
        portfolio_return ==
            [num |-> Dot(optimal_weights.k, r.mu, r.n), den |-> optimal_weights.q]
        variance ==
            [num |-> QuadForm(optimal_weights.k, r.sigma, r.n),
             den |-> optimal_weights.q * optimal_weights.q]
    IN [code |-> 200,
        portfolio |-> portfolio,
        metrics |-> [expected_return |-> portfolio_return,
                     volatility_squared |-> variance,
                     sharpe_ratio |-> SharpeRatio(portfolio_return, variance),
                     concentration_hhi |-> HHIOf(portfolio)]]

\* The request arrives: conversion, validation and the formulation inside
\* mean_variance_optimize either raise (the call fails with status 500) or
\* leave a problem for the backend.
OptimizeCall ==
    /\ pc = "idle"
    /\ \E r \in OptimizeRequests :
         /\ request' = r
         /\ IF OptimizeFailure(r) # "none"
            THEN /\ response' = Failure(OptimizeFailure(r))
                 /\ pc' = "responded"
                 /\ log' = "Portfolio optimization failed"
                 /\ UNCHANGED <<globals, req, problem, idx, tried, answer,
                                hung, result, exit>>
            ELSE /\ Start(MVRequestOf(r))
                 /\ response' = NoResponse
    /\ endpoint' = "optimize"
    /\ UNCHANGED <<chained, prevResult, prevExit, loadReturn, engine, logger_instance>>

\* ------------------------------------------------ mlflow_logger (18-221)

\* get_logger's default experiment_name, and the one of the module's example.
DefaultExperiment == "financial_optimizer"

ExperimentNames == {DefaultExperiment, "test_experiment"}

Logger(experiment_name, experiment_id) ==
    Dict([experiment_name |-> experiment_name, experiment_id |-> experiment_id])

\* What the tracking server lets happen while MLflowLogger is constructed:
\* MlflowClient() / set_tracking_uri raise; the experiment setup raises (it
\* is caught and leaves experiment_id None); all is well.
ConstructionOutcomes == {"construction_raises", "setup_raises", "constructed"}

\* What the tracking server lets happen during one log_optimization_run or
\* log_backtest_results call: the outcomes of the construction, which can
\* only happen while no logger has been built yet, with a constructed logger
\* either failing to start or fill the run or logging it.
LoggingOutcomes ==
    IF logger_instance.isNone
    THEN {"construction_raises", "setup_raises", "run_raises", "logged"}
    ELSE {"run_raises", "logged"}

\* get_logger(experiment_name) (178-183) and MLflowLogger.__init__ (21-48):
\* the instance left in the module global.  An instance already there is
\* kept, whatever its experiment.
AfterGetLogger(experiment_name, outcome) ==
    IF ~logger_instance.isNone THEN logger_instance
    ELSE CASE outcome = "construction_raises" -> None
           [] outcome = "setup_raises" -> Logger(experiment_name, "None")
           [] OTHER -> Logger(experiment_name, "1")

\* log_optimization_run (186-203, 50-109): an exception of the constructor
\* leaves the call; every later failure is caught and gives None.
LogOptimizationRun(outcome) ==
    LET instance == AfterGetLogger(DefaultExperiment, outcome)
    IN IF instance.isNone THEN [raises |-> TRUE, run_id |-> "None"]
       ELSE IF instance.val.experiment_id = "None" \/ outcome = "run_raises"
       THEN [raises |-> FALSE, run_id |-> "None"]
       ELSE [raises |-> FALSE, run_id |-> "run"]

\* log_backtest_results (206-221, 111-139): likewise.
log_backtest_results(outcome) ==
    LET logger == AfterGetLogger(DefaultExperiment, outcome)
    IN IF logger.isNone THEN [raises |-> TRUE, run_id |-> "None"]
       ELSE IF logger.val.experiment_id = "None" \/ outcome = "run_raises"
       THEN [raises |-> FALSE, run_id |-> "None"]
       ELSE [raises |-> FALSE, run_id |-> "run"]

\* A caller invokes get_logger: it returns the instance, or the constructor's
\* exception leaves it.
GetLogger ==
    /\ pc = "idle"
    /\ \E experiment_name \in ExperimentNames :
         \E outcome \in IF logger_instance.isNone THEN ConstructionOutcomes
                         ELSE {"constructed"} :
            /\ req' = [op |-> "get_logger", experiment_name |-> experiment_name]
            /\ logger_instance' = AfterGetLogger(experiment_name, outcome)
            /\ result' = AfterGetLogger(experiment_name, outcome)
            /\ exit' = IF outcome = "construction_raises" THEN "Raised"
                         ELSE "Returned"
    /\ pc' = "done"
    /\ UNCHANGED <<globals, problem, idx, tried, answer, hung, log, chained,
                   prevResult, prevExit, loadReturn, engine, endpoint,
                   request, response>>

\* A caller invokes log_backtest_results: it returns the run id or None, or
\* the constructor's exception leaves it.
LogBacktestResults ==
    /\ pc = "idle"
    /\ \E outcome \in LoggingOutcomes :
         /\ req' = [op |-> "log_backtest_results"]
         /\ logger_instance' = AfterGetLogger(DefaultExperiment, outcome)
         /\ result' = log_backtest_results(outcome).run_id
         /\ exit' = IF log_backtest_results(outcome).raises THEN "Raised"
                      ELSE "Returned"
    /\ pc' = "done"
    /\ UNCHANGED <<globals, problem, idx, tried, answer, hung, log, chained,
                   prevResult, prevExit, loadReturn, engine, endpoint,
                   request, response>>

\* mean_variance_optimize has returned: the response is formatted, the run is
\* logged, and the response is returned, unless logging raised.
Respond ==
    /\ pc = "done"
    /\ endpoint = "optimize"
    /\ \E outcome \in LoggingOutcomes :
         /\ logger_instance' = AfterGetLogger(DefaultExperiment, outcome)
         /\ IF LogOptimizationRun(outcome).raises
            THEN /\ response' = Failure("MlflowException")
                 /\ log' = "Portfolio optimization failed"
            ELSE /\ response' = OptimizeResponse(req, result)
                 /\ log' = log
    /\ pc' = "responded"
    /\ UNCHANGED <<globals, req, problem, idx, tried, answer, hung, result,
                   exit, chained, prevResult, prevExit, loadReturn, engine,
                   endpoint, request>>

\* ------------------------------------------- POST /risk-metrics (400-432)

\* dict.get(key, 0)
GetOr0(d, key) == IF key \in DOMAIN d THEN d[key] ELSE 0

\* active_share: None unless `weights.benchmark_weights` is truthy; otherwise
\* 0.5 * sum(|w - b|) over the union of the keys, in units of 1/(2 * Den).
ActiveShare(portfolio_weights, benchmark_weights) ==
    IF ~Truthy(benchmark_weights) THEN None
    ELSE LET keys == DOMAIN portfolio_weights \cup DOMAIN benchmark_weights.val
             active_weights ==
                 [a \in keys |-> GetOr0(portfolio_weights, a)
                                   - GetOr0(benchmark_weights.val, a)]
             magnitude == [a \in keys |-> AbsOf(active_weights[a])]
         IN Dict(SumOver(magnitude, keys))

\* Faulty variant: the HHI itself is reported.
EffectiveNumStocksNotInverted(hhi) ==
    IF hhi # FloatZero THEN Dict(hhi) ELSE None

\* effective_num_stocks = 1 / hhi if hhi > 0 else None, in binary64.
EffectiveNumStocks(hhi) ==
    IF hhi # FloatZero THEN Dict(FloatRecip(hhi)) ELSE None

\* The 0.001 of `if w > 0.001`.
PositionThreshold == FloatOf(1, 1000)

\* The response of calculate_risk_metrics: max() of an empty portfolio raises
\* ValueError, which the handler turns into status 500.
\* concentration_hhi, max_weight and effective_num_stocks are binary64
\* values; active_share is exact, in units of 1/(2 * Den).
RiskMetricsResponse(r) ==
    LET portfolio_weights == r.weights.k
    IN IF DOMAIN portfolio_weights = {}
       THEN Failure("max() arg is an empty sequence")
       ELSE CHOOSE metrics \in
              {[code |-> 200,
                concentration_hhi |-> hhi,
                max_weight |->
                    CHOOSE w \in SetOf(values) :
                       \A v \in SetOf(values) : FloatLeq(v, w),
                num_positions |->
                    Cardinality({j \in DOMAIN values :
                                   ~FloatLeq(values[j], PositionThreshold)}),
                active_share |->
                    ActiveShare(portfolio_weights, r.benchmark_weights),
                effective_num_stocks |-> EffectiveNumStocks(hhi)] :
                 <<values, hhi>> \in {<<Values(r.weights),
                                        compute_hhi_float(r.weights)>>}} : TRUE

RiskMetrics ==
    /\ pc = "idle"
    /\ \E r \in RiskRequests :
         \E metrics \in {RiskMetricsResponse(r)} :
            /\ request' = r
            /\ response' = metrics
            /\ log' = IF metrics.code = 200 THEN log
                      ELSE "Risk metrics calculation failed"
    /\ endpoint' = "risk-metrics"
    /\ pc' = "responded"
    /\ UNCHANGED <<globals, req, problem, idx, tried, answer, hung, result,
                   exit, chained, prevResult, prevExit, loadReturn, engine,
                   logger_instance>>

\* ------------------------------------------- estimate_mu_sigma (129-152)

\* alpha = 0.94, the decay factor, as EwmaNum / EwmaDen.
EwmaNum == 47

EwmaDen == 50

\* Return histories: up to MaxHistory rows (oldest first) of one return per
\* column, in units of 1/100.
MaxHistory == 3

HistoryColumns == 2

ReturnLevels == {-1, 2}

Histories ==
    UNION {[1..t -> [1..HistoryColumns -> ReturnLevels]] : t \in 0..MaxHistory}

Lookbacks == {2, 252}

EstimateRequests ==
    {[op |-> "estimate", returns_data |-> h, lookback |-> l] :
        h \in Histories, l \in Lookbacks}

\* returns_data.tail(lookback), after lookback is cut to the length available.
RecentReturns(returns_data, lookback) ==
    LET n == IF Len(returns_data) < lookback THEN Len(returns_data) ELSE lookback
    IN SubSeq(returns_data, Len(returns_data) - n + 1, Len(returns_data))

\* The weight of row t of a window of n rows, (1 - alpha) * alpha^(n - t),
\* up to the factor (1 - alpha) / EwmaDen^(n - 1) that the normalisation
\* removes.  ewm(alpha = 1 - alpha) weighs row t the same.
EwmaWeight(t, n) == EwmaNum ^ (n - t) * EwmaDen ^ (t - 1)

\* mu, one fraction per column: the weighted sum of the column over the sum
\* of the weights; the sum over no row at all is 0.
EwmaMean(recent) ==
    LET n == Len(recent)
        total == SumSeq([t \in 1..n |-> EwmaWeight(t, n)])
    IN [c \in 1..HistoryColumns |->
          IF n = 0 THEN [num |-> 0, den |-> 1]
          ELSE [num |-> SumSeq([t \in 1..n |-> EwmaWeight(t, n) * recent[t][c]]),
                den |-> total]]

\* sigma, the last block of ewm(...).cov(): no row for no observation, NaN for
\* a single one (the bias correction divides by (sum w)^2 - sum w^2 = 0), and
\* otherwise the bias-corrected weighted covariance, as a fraction.
EwmaCov(recent) ==
    LET n == Len(recent)
        W(t) == EwmaWeight(t, n)
        sw == SumSeq([t \in 1..n |-> W(t)])
        sw2 == SumSeq([t \in 1..n |-> W(t) * W(t)])
        Sx(c) == SumSeq([t \in 1..n |-> W(t) * recent[t][c]])
        Sxy(c, d) == SumSeq([t \in 1..n |-> W(t) * recent[t][c] * recent[t][d]])
    IN IF n = 0 THEN <<>>
       ELSE [c \in 1..HistoryColumns |-> [d \in 1..HistoryColumns |->
               IF sw * sw - sw2 > 0
               THEN [nan |-> FALSE,
                     num |-> sw * Sxy(c, d) - Sx(c) * Sx(d),
                     den |-> sw * sw - sw2]
               ELSE [nan |-> TRUE, num |-> 0, den |-> 1]]]

\* A caller invokes estimate_mu_sigma: it returns (mu, sigma) for every
\* history; nothing in it raises.
EstimateMuSigma ==
    /\ pc = "idle"
    /\ \E r \in EstimateRequests :
         LET recent_returns == RecentReturns(r.returns_data, r.lookback)
         IN /\ req' = r
            /\ result' = [mu |-> EwmaMean(recent_returns),
                          sigma |-> EwmaCov(recent_returns)]
    /\ exit' = "Returned"
    /\ pc' = "done"
    /\ UNCHANGED <<globals, problem, idx, tried, answer, hung, log, chained,
                   prevResult, prevExit, loadReturn, engine, api>>

\* ------------------- scripts/bench_compare_mv_cvar.py, VaR and CVaR (122-125)

\* A signed binary64: a magnitude m * 2^e and a sign (zero has none).
Signed(neg, x) ==
    IF x.m = <<>> THEN [neg |-> FALSE, m |-> <<>>, e |-> 0]
    ELSE [neg |-> neg, m |-> x.m, e |-> x.e]

Magnitude(x) == [m |-> x.m, e |-> x.e]

\* The float k / d of an integer k and a positive integer d.
SignedFloatOf(k, d) ==
    IF k < 0 THEN Signed(TRUE, FloatOf(0 - k, d)) ELSE Signed(FALSE, FloatOf(k, d))

\* x - y for magnitudes x >= y.
FloatSubMagnitude(x, y) ==
    LET e == IF x.e < y.e THEN x.e ELSE y.e
    IN CHOOSE z \in {RoundScaled(diff, e) :
                        diff \in {BigSub(Shift(x.m, x.e - e),
                                         Shift(y.m, y.e - e))}} : TRUE

\* x / y for magnitudes, y nonzero: the quotient of the odd parts, rounded,
\* times a power of two.
FloatDivMagnitude(x, y) ==
    CHOOSE z \in {IF q.m = <<>> THEN q ELSE [m |-> q.m, e |-> q.e + x.e - y.e] :
                     q \in {RoundDiv(x.m, y.m)}} : TRUE

SignedAdd(x, y) ==
    IF x.neg = y.neg
    THEN Signed(x.neg, FloatAdd(Magnitude(x), Magnitude(y)))
    ELSE IF FloatLeq(Magnitude(y), Magnitude(x))
    THEN Signed(x.neg, FloatSubMagnitude(Magnitude(x), Magnitude(y)))
    ELSE Signed(y.neg, FloatSubMagnitude(Magnitude(y), Magnitude(x)))

SignedSub(x, y) == SignedAdd(x, Signed(~y.neg, Magnitude(y)))

SignedMul(x, y) == Signed(x.neg # y.neg, FloatMul(Magnitude(x), Magnitude(y)))

SignedDiv(x, y) ==
    Signed(x.neg # y.neg, FloatDivMagnitude(Magnitude(x), Magnitude(y)))

\* x <= y
SignedLeq(x, y) ==
    IF x.neg # y.neg THEN x.neg
    ELSE IF x.neg THEN FloatLeq(Magnitude(y), Magnitude(x))
    ELSE FloatLeq(Magnitude(x), Magnitude(y))

\* Left-to-right sum, as numpy adds fewer than 8 elements.
RECURSIVE SignedSum(_)
SignedSum(xs) ==
    IF xs = <<>> THEN Signed(FALSE, FloatZero)
    ELSE CHOOSE z \in {SignedAdd(before, xs[Len(xs)]) :
                          before \in {SignedSum(SubSeq(xs, 1, Len(xs) - 1))}} : TRUE

\* res with the elements of xs added to it one after the other.
RECURSIVE AddEach(_, _)
AddEach(res, xs) ==
    IF xs = <<>> THEN res
    ELSE CHOOSE z \in {AddEach(next, Tail(xs)) :
                          next \in {SignedAdd(res, xs[1])}} : TRUE

\* np.add.reduce over a contiguous array of at most 128 elements (numpy's
\* pairwise sum): fewer than 8 elements are added left to right; otherwise 8
\* accumulators take the elements 8 at a time, are added up as
\* ((r0 + r1) + (r2 + r3)) + ((r4 + r5) + (r6 + r7)), and the elements left
\* over are added to that one after the other.
PairwiseSum(xs) ==
    IF Len(xs) < 8 THEN SignedSum(xs)
    ELSE LET blocks == Len(xs) \div 8
         IN CHOOSE z \in
              {AddEach(SignedAdd(SignedAdd(SignedAdd(r[1], r[2]),
                                           SignedAdd(r[3], r[4])),
                                 SignedAdd(SignedAdd(r[5], r[6]),
                                           SignedAdd(r[7], r[8]))),
                       SubSeq(xs, 8 * blocks + 1, Len(xs))) :
                 r \in {[j \in 1..8 |->
                           AddEach(xs[j], [b \in 1..(blocks - 1) |->
                                             xs[8 * b + j]])]}} : TRUE

\* The most scenarios of a scenario matrix.
MaxScenarios == 3

\* Scenario returns, in tenths.
ScenarioReturnLevels == {-2, 1, 3}

\* The q of np.percentile(portfolio_scenarios, 5).
TailPercent == 5

\* The least number of scenarios whose 5th percentile is not interpolated
\* from the lowest return: the virtual index (n - 1) * 0.05 is 1.
LongScenarios == 100 \div TailPercent + 1

\* The sequence holding x at position at and y at the other positions.
OneAmong(x, y, at) == [j \in 1..LongScenarios |-> IF j = at THEN x ELSE y]

\* Scenario matrices of LongScenarios scenarios: with weights of 1/2 each,
\* one scenario of return -0.05 + 0.15 = 0.09999999999999999 among scenarios
\* of return -0.15 + 0.25 = 0.1, at a position of the first or the second
\* block of 8, or past them; one asset with a return of -0.2, then 0.1, then
\* 0.3 throughout; one asset with 0.1 throughout.
LongScenarioMatrices ==
    {<<OneAmong(-1, -3, at), OneAmong(3, 5, at)>> :
        at \in {1, 9, 17, LongScenarios}}
      \cup {<<[j \in 1..LongScenarios |-> IF j = 1 THEN -2
                                          ELSE IF j = 2 THEN 1 ELSE 3]>>,
            <<[j \in 1..LongScenarios |-> 1]>>}

\* Scenario matrices (assets x scenarios) of one asset over all levels and of
\* two assets over two levels, of up to MaxScenarios scenarios; the long ones.
ScenarioMatrices ==
    UNION {[1..1 -> [1..s -> ScenarioReturnLevels]] : s \in 1..MaxScenarios}
      \cup UNION {[1..2 -> [1..s -> {-2, 1}]] : s \in 1..MaxScenarios}
      \cup LongScenarioMatrices

\* Weight vectors, in halves: with them every product weight * return is
\* exact, so that the matrix product rounds once whatever the order of its
\* operations.
BenchWeights == {<<2>>, <<1>>, <<1, 1>>}

MetricsRequests ==
    {[op |-> "metrics", scenarios |-> a[1], weights |-> a[2]] :
        a \in {b \in ScenarioMatrices \X BenchWeights : Len(b[1]) = Len(b[2])}}

\* portfolio_scenarios = scenarios.T @ weights
PortfolioScenarios(scenarios, weights) ==
    [j \in 1..Len(scenarios[1]) |->
        SignedSum([i \in 1..Len(weights) |->
            SignedMul(SignedFloatOf(scenarios[i][j], 10),
                      SignedFloatOf(weights[i], 2))])]

\* x put at its place in an ascending sequence.
RECURSIVE InsertAscending(_, _)
InsertAscending(x, sorted) ==
    IF sorted = <<>> THEN <<x>>
    ELSE IF SignedLeq(x, sorted[1]) THEN <<x>> \o sorted
    ELSE <<sorted[1]>> \o InsertAscending(x, Tail(sorted))

\* The values in ascending order.
RECURSIVE Ascending(_)
Ascending(xs) ==
    IF xs = <<>> THEN <<>>
    ELSE CHOOSE s \in {InsertAscending(xs[1], rest) :
                          rest \in {Ascending(Tail(xs))}} : TRUE

\* numpy's _lerp(a, b, t).
Lerp(a, b, t) ==
    LET diff_b_a == SignedSub(b, a)
        half == SignedFloatOf(1, 2)
    IN IF SignedLeq(half, t)
       THEN SignedSub(b, SignedMul(diff_b_a, SignedSub(SignedFloatOf(1, 1), t)))
       ELSE SignedAdd(a, SignedMul(diff_b_a, t))

\* np.percentile(xs, q) with the default linear method: the virtual index
\* (n - 1) * (q / 100), its floor and the interpolation between the two
\* order statistics around it; the last one when the index reaches n - 1.
Percentile(xs, q) ==
    LET n == Len(xs)
        sorted == Ascending(xs)
        virtual == SignedMul(SignedFloatOf(n - 1, 1), SignedFloatOf(q, 100))
        previous == ((n - 1) * q) \div 100
        gamma == SignedSub(virtual, SignedFloatOf(previous, 1))
    IN IF SignedLeq(SignedFloatOf(n - 1, 1), virtual) THEN sorted[n]
       ELSE Lerp(sorted[previous + 1], sorted[previous + 2], gamma)

\* Faulty variant: the scenarios above the threshold are kept.
TailAbove(xs, var) == SelectSeq(xs, LAMBDA x : ~SignedLeq(x, var))

\* portfolio_scenarios[portfolio_scenarios <= var_95]
TailAtOrBelow(xs, var) == SelectSeq(xs, LAMBDA x : SignedLeq(x, var))

NaN == [nan |-> TRUE]

\* np.mean: the sum divided by the count; nan for an empty slice.
Mean(xs) ==
    IF xs = <<>> THEN NaN
    ELSE CHOOSE z \in {SignedDiv(s, SignedFloatOf(Len(xs), 1)) :
                          s \in {PairwiseSum(xs)}} : TRUE

\* The var_95 and cvar_95 entries of calculate_portfolio_metrics.
calculate_portfolio_metrics(scenarios, weights) ==
    CHOOSE metrics \in
        {[var_95 |-> var_95, cvar_95 |-> Mean(TailAtOrBelow(ps, var_95))] :
            <<ps, var_95>> \in
                {<<p, Percentile(p, TailPercent)>> :
                    p \in {PortfolioScenarios(scenarios, weights)}}} : TRUE

CalculatePortfolioMetrics ==
    /\ pc = "idle"
    /\ \E r \in MetricsRequests :
         /\ req' = r
         /\ \E metrics \in {calculate_portfolio_metrics(r.scenarios, r.weights)} :
              result' = metrics
    /\ exit' = "Returned"
    /\ pc' = "done"
    /\ UNCHANGED <<globals, problem, idx, tried, answer, hung, log, chained,
                   prevResult, prevExit, loadReturn, api, engine>>

\* ----------- scripts/bench_generate_scenarios.py, calculate_risk_metrics (243-255)

\* Scenario probabilities, in hundredths, of one to three scenarios.
ProbabilityVectors ==
    {<<100>>, <<50, 50>>, <<4, 96>>, <<96, 4>>}
        \cup {p \in [1..3 -> {4, 46, 50}] : p[1] # p[2] /\ p[1] # p[3] /\ p[2] # p[3]}

\* The portfolio_return (in tenths) and probability columns of scenario_results.
ScenarioResults ==
    {[op |-> "risk", portfolio_return |-> a[1], probability |-> a[2]] :
        a \in {b \in (UNION {[1..s -> ScenarioReturnLevels] : s \in 1..MaxScenarios})
                       \X ProbabilityVectors : Len(b[1]) = Len(b[2])}}

\* Series.cumsum()
RECURSIVE CumSum(_)
CumSum(xs) ==
    IF xs = <<>> THEN <<>>
    ELSE CHOOSE z \in
           {IF before = <<>> THEN <<xs[1]>>
            ELSE Append(before, SignedAdd(before[Len(before)], xs[Len(xs)])) :
              before \in {CumSum(SubSeq(xs, 1, Len(xs) - 1))}} : TRUE

\* The indices of a sequence where the condition holds, as a sequence.
Where(flags) ==
    LET hits == {i \in 1..Len(flags) : flags[i]}
    IN [j \in 1..Cardinality(hits) |->
          CHOOSE i \in hits : Cardinality({k \in hits : k < i}) = j - 1]

\* The cvar_95 of calculate_risk_metrics: the probability-weighted mean of the
\* returns at or below var_95, or var_95 when there is none.
WeightedTailMean(returns, probability, var_95) ==
    CHOOSE cvar_95 \in
        {IF rows = <<>> THEN var_95
         ELSE SignedDiv(
                SignedSum([j \in 1..Len(rows) |->
                             SignedMul(returns[rows[j]], probability[rows[j]])]),
                SignedSum([j \in 1..Len(rows) |-> probability[rows[j]]])) :
           rows \in {Where([i \in 1..Len(returns) |->
                              SignedLeq(returns[i], var_95)])}} : TRUE

\* The var_95 and cvar_95 of calculate_risk_metrics.  set_index puts the
\* labels of the sorted returns on the rows in their original order, so the
\* probabilities are cumulated in row order and the first position reaching
\* 0.05 selects the return of that rank; IndexError when none reaches it.
calculate_risk_metrics(results) ==
    CHOOSE metrics \in
        {LET returns == d[1]
             probability == d[2]
             sorted_returns == d[3]
             reached == d[4]
         IN IF reached = <<>> THEN [raised |-> "IndexError"]
            ELSE [var_95 |-> sorted_returns[reached[1]],
                  cvar_95 |-> WeightedTailMean(returns, probability,
                                               sorted_returns[reached[1]])] :
           d \in {<<c[1], c[2], Ascending(c[1]),
                    Where([i \in 1..Len(c[3]) |->
                             SignedLeq(SignedFloatOf(5, 100), c[3][i])])>> :
                    c \in {<<r, p, CumSum(p)>> :
                             r \in {[i \in DOMAIN results.portfolio_return |->
                                       SignedFloatOf(results.portfolio_return[i], 10)]},
                             p \in {[i \in DOMAIN results.probability |->
                                       SignedFloatOf(results.probability[i], 100)]}}}} : TRUE

CalculateRiskMetrics ==
    /\ pc = "idle"
    /\ \E r \in ScenarioResults :
         /\ req' = r
         /\ \E metrics \in {calculate_risk_metrics(r)} : result' = metrics
    /\ exit' = "Returned"
    /\ pc' = "done"
    /\ UNCHANGED <<globals, problem, idx, tried, answer, hung, log, chained,
                   prevResult, prevExit, loadReturn, api, engine>>

NextBench == CalculatePortfolioMetrics \/ CalculateRiskMetrics \/ Return

SpecBench == Init /\ [][NextBench]_vars

\* ------------------------------ financial_advisor/policy_engine.py (13-350)

\* The longest portfolio handed to the policy engine.
MaxInvestments == 3

\* Investment objects; allocations in percent, scores as written, all
\* integer-valued.
Investment(symbol, name, country, sector, theme, allocation, esg, carbon, board) ==
    [symbol |-> symbol, name |-> name, country |-> country, sector |-> sector,
     theme |-> theme, allocation |-> allocation, esg_score |-> esg,
     carbon_intensity |-> carbon, board_diversity |-> board]

InvestmentPool ==
    {Investment("AAPL", "Apple Inc.", "US", "technology", "technology",
                30, 8, 50, 40),
     Investment("EVIL_CORP", "Evil Corporation", "US", "tobacco_manufacturing",
                "tobacco", 10, 2, 500, 5),
     Investment("RU1", "Russian Company", "RU", "energy", "energy",
                5, 6, 300, 10),
     Investment("TBH", "Tobacco Holdings", "DE", "technology", "technology",
                20, 7, 60, 30),
     Investment("LOW_ESG", "Low Score SA", "CH", "technology",
                "renewable_energy", 3, 2, 80, 20)}

Portfolios == UNION {[1..k -> InvestmentPool] : k \in 0..MaxInvestments}

\* The configuration of the tests (test_policy_engine.py 16-51).
TestPolicies ==
    [version |-> "1.0",
     country_limits |->
        [max_allocation_per_country |-> 25,
         restricted_countries |-> <<"RU", "IR">>,
         min_countries |-> 3],
     theme_limits |->
        [max_allocation_per_theme |-> 30,
         restricted_themes |-> <<"tobacco", "weapons">>,
         required_themes |->
            <<[theme |-> "renewable_energy", min_allocation |-> 5],
              [theme |-> "technology", min_allocation |-> 10]>>],
     security_lists |->
        [blacklist |->
            [companies |-> <<"EVIL_CORP">>,
             sectors |-> <<"tobacco_manufacturing">>,
             esg_blacklist |-> [min_esg_score |-> 3]]],
     esg_constraints |->
        [portfolio_requirements |->
            [min_avg_esg_score |-> 6,
             max_carbon_intensity |-> 150,
             min_board_diversity |-> 30]],
     risk_management |->
        [max_single_security |-> 5, max_sector_concentration |-> 35]]

\* A configuration with only a version: every limit takes its default.
VersionOnlyPolicies == [version |-> "1.0"]

\* A configuration that blacklists a company by name, lists a restricted
\* country twice and asks for no country diversification.
NamePolicies ==
    [version |-> "1.0",
     country_limits |->
        [max_allocation_per_country |-> 30,
         restricted_countries |-> <<"RU", "RU">>,
         min_countries |-> 0],
     security_lists |->
        [blacklist |->
            [companies |-> <<"EVIL_CORP", "Tobacco Holdings">>,
             esg_blacklist |-> [min_esg_score |-> 7]]],
     risk_management |-> [max_single_security |-> 20]]

\* A configuration with sector and ESG screens but no company list.
SectorPolicies ==
    [version |-> "1.0",
     country_limits |-> [min_countries |-> 2],
     security_lists |->
        [blacklist |->
            [sectors |-> <<"technology", "energy">>,
             esg_blacklist |-> [min_esg_score |-> 6]]],
     esg_constraints |->
        [portfolio_requirements |-> [min_avg_esg_score |-> 7]]]

PolicyConfigs == {TestPolicies, VersionOnlyPolicies, NamePolicies, SectorPolicies}

\* dict.get(key, default).
Get(d, key, default) == IF key \in DOMAIN d THEN d[key] ELSE default

\* The empty dict {} used as a default.
EmptyMapping == <<>>

\* x in a list.
InList(x, list) == \E i \in 1..Len(list) : list[i] = x

\* A quotient a / b given as argument of PolicyViolation, kept as a fraction
\* (None when the argument is not given).
Ratio(a, b) == [isNone |-> FALSE, val |-> [num |-> a, den |-> b]]

\* A number given as argument of PolicyViolation.
Number(x) == Ratio(x, 1)

\* PolicyViolation(type, description, severity, current_value, limit_value);
\* of the description, `subject` keeps the country, theme, sector or symbol
\* it names.
PolicyViolation(type, subject, severity, current_value, limit_value) ==
    [type |-> type, subject |-> subject, severity |-> severity,
     current_value |-> current_value, limit_value |-> limit_value]

\* The appended violations of a loop: candidates are <<condition, violation>>.
Appended(candidates) ==
    LET hits == SelectSeq(candidates, LAMBDA c : c[1])
    IN [i \in 1..Len(hits) |-> hits[i][2]]

\* The keys of a dict filled in a loop over `values`, in insertion order.
RECURSIVE InsertionOrder(_)
InsertionOrder(values) ==
    IF values = <<>> THEN <<>>
    ELSE LET front == InsertionOrder(SubSeq(values, 1, Len(values) - 1))
             last == values[Len(values)]
         IN IF InList(last, front) THEN front ELSE Append(front, last)

\* Allocation summed over the investments whose `field` is `key`; 0 if none.
AllocationOf(invs, field, key) ==
    SumSeq([i \in 1..Len(invs) |->
              IF invs[i][field] = key THEN invs[i].allocation ELSE 0])

Field(invs, field) == [i \in 1..Len(invs) |-> invs[i][field]]

\* Faulty variant: a country at its maximum allocation is reported too.
check_country_limits_inclusive(pol, invs) ==
    LET country_limits == Get(pol, "country_limits", EmptyMapping)
        countries == InsertionOrder(Field(invs, "country"))
        max_allocation == Get(country_limits, "max_allocation_per_country", 100)
        restricted_countries == Get(country_limits, "restricted_countries", <<>>)
        min_countries == Get(country_limits, "min_countries", 1)
    IN Appended([i \in 1..Len(countries) |->
            <<AllocationOf(invs, "country", countries[i]) >= max_allocation,
              PolicyViolation("country_limit", countries[i], "major",
                  Number(AllocationOf(invs, "country", countries[i])),
                  Number(max_allocation))>>])
       \o Appended([i \in 1..Len(restricted_countries) |->
            <<InList(restricted_countries[i], countries),
              PolicyViolation("restricted_country", restricted_countries[i],
                  "critical", None, None)>>])
       \o Appended(<< <<Len(countries) < min_countries,
              PolicyViolation("country_diversification", "", "major",
                  Number(Len(countries)), Number(min_countries))>> >>)

\* _check_country_limits (93-137).
check_country_limits(pol, invs) ==
    LET country_limits == Get(pol, "country_limits", EmptyMapping)
        countries == InsertionOrder(Field(invs, "country"))
        max_allocation == Get(country_limits, "max_allocation_per_country", 100)
        restricted_countries == Get(country_limits, "restricted_countries", <<>>)
        min_countries == Get(country_limits, "min_countries", 1)
    IN Appended([i \in 1..Len(countries) |->
            <<AllocationOf(invs, "country", countries[i]) > max_allocation,
              PolicyViolation("country_limit", countries[i], "major",
                  Number(AllocationOf(invs, "country", countries[i])),
                  Number(max_allocation))>>])
       \o Appended([i \in 1..Len(restricted_countries) |->
            <<InList(restricted_countries[i], countries),
              PolicyViolation("restricted_country", restricted_countries[i],
                  "critical", None, None)>>])
       \o Appended(<< <<Len(countries) < min_countries,
              PolicyViolation("country_diversification", "", "major",
                  Number(Len(countries)), Number(min_countries))>> >>)

\* _check_theme_limits (139-186).
check_theme_limits(pol, invs) ==
    LET theme_limits == Get(pol, "theme_limits", EmptyMapping)
        themes == InsertionOrder(Field(invs, "theme"))
        max_allocation == Get(theme_limits, "max_allocation_per_theme", 100)
        restricted_themes == Get(theme_limits, "restricted_themes", <<>>)
        required_themes == Get(theme_limits, "required_themes", <<>>)
    IN Appended([i \in 1..Len(themes) |->
            <<AllocationOf(invs, "theme", themes[i]) > max_allocation,
              PolicyViolation("theme_limit", themes[i], "major",
                  Number(AllocationOf(invs, "theme", themes[i])),
                  Number(max_allocation))>>])
       \o Appended([i \in 1..Len(restricted_themes) |->
            <<InList(restricted_themes[i], themes),
              PolicyViolation("restricted_theme", restricted_themes[i],
                  "critical", None, None)>>])
       \o Appended([i \in 1..Len(required_themes) |->
            LET theme == required_themes[i].theme
                min_allocation == Get(required_themes[i], "min_allocation", 0)
                current_allocation == AllocationOf(invs, "theme", theme)
            IN <<current_allocation < min_allocation,
                 PolicyViolation("required_theme", theme, "major",
                     Number(current_allocation), Number(min_allocation))>>])

\* _check_security_lists (188-229).
check_security_lists(pol, invs) ==
    LET security_lists == Get(pol, "security_lists", EmptyMapping)
        blacklist == Get(security_lists, "blacklist", EmptyMapping)
        blacklisted_companies == Get(blacklist, "companies", <<>>)
        blacklisted_sectors == Get(blacklist, "sectors", <<>>)
        esg_blacklist == Get(blacklist, "esg_blacklist", EmptyMapping)
        min_esg_score == Get(esg_blacklist, "min_esg_score", 0)
    IN Appended([i \in 1..Len(invs) |->
            <<InList(invs[i].symbol, blacklisted_companies)
                \/ InList(invs[i].name, blacklisted_companies),
              PolicyViolation("blacklisted_security", invs[i].symbol,
                  "critical", None, None)>>])
       \o Appended([i \in 1..Len(invs) |->
            <<InList(invs[i].sector, blacklisted_sectors),
              PolicyViolation("blacklisted_sector", invs[i].sector,
                  "critical", None, None)>>])
       \o Appended([i \in 1..Len(invs) |->
            <<invs[i].esg_score < min_esg_score,
              PolicyViolation("esg_blacklist", invs[i].symbol, "major",
                  Number(invs[i].esg_score), Number(min_esg_score))>>])

\* sum(inv.<field> * inv.allocation for inv in investments).
WeightedSum(invs, field) ==
    SumSeq([i \in 1..Len(invs) |-> invs[i][field] * invs[i].allocation])

\* _check_esg_constraints (231-282); with integer-valued inputs of this size
\* the rounded quotient compares with the limit as the exact one does.
check_esg_constraints(pol, invs) ==
    LET esg_constraints == Get(pol, "esg_constraints", EmptyMapping)
        portfolio_reqs == Get(esg_constraints, "portfolio_requirements", EmptyMapping)
        total_allocation == SumSeq(Field(invs, "allocation"))
        min_esg_score == Get(portfolio_reqs, "min_avg_esg_score", 0)
        min_board_diversity == Get(portfolio_reqs, "min_board_diversity", 0)
    IN IF invs = <<>> \/ total_allocation <= 0 THEN <<>>
       ELSE Appended(<<
            <<WeightedSum(invs, "esg_score") < min_esg_score * total_allocation,
              PolicyViolation("portfolio_esg_score", "", "major",
                  Ratio(WeightedSum(invs, "esg_score"), total_allocation),
                  Number(min_esg_score))>>,
            <<"max_carbon_intensity" \in DOMAIN portfolio_reqs
                /\ WeightedSum(invs, "carbon_intensity")
                     > Get(portfolio_reqs, "max_carbon_intensity", 0)
                         * total_allocation,
              PolicyViolation("carbon_intensity", "", "major",
                  Ratio(WeightedSum(invs, "carbon_intensity"), total_allocation),
                  Number(Get(portfolio_reqs, "max_carbon_intensity", 0)))>>,
            <<WeightedSum(invs, "board_diversity")
                < min_board_diversity * total_allocation,
              PolicyViolation("board_diversity", "", "minor",
                  Ratio(WeightedSum(invs, "board_diversity"), total_allocation),
                  Number(min_board_diversity))>> >>)

\* _check_risk_management (284-318).
check_risk_management(pol, invs) ==
    LET risk_mgmt == Get(pol, "risk_management", EmptyMapping)
        max_single_security == Get(risk_mgmt, "max_single_security", 100)
        max_sector_concentration == Get(risk_mgmt, "max_sector_concentration", 100)
        sectors == InsertionOrder(Field(invs, "sector"))
    IN Appended([i \in 1..Len(invs) |->
            <<invs[i].allocation > max_single_security,
              PolicyViolation("single_security_limit", invs[i].symbol, "major",
                  Number(invs[i].allocation), Number(max_single_security))>>])
       \o Appended([i \in 1..Len(sectors) |->
            <<AllocationOf(invs, "sector", sectors[i]) > max_sector_concentration,
              PolicyViolation("sector_concentration", sectors[i], "major",
                  Number(AllocationOf(invs, "sector", sectors[i])),
                  Number(max_sector_concentration))>>])

\* Faulty variant: the security lists are checked before the country limits.
validate_portfolio_lists_first(pol, invs) ==
    check_security_lists(pol, invs)
        \o check_country_limits(pol, invs)
        \o check_theme_limits(pol, invs)
        \o check_esg_constraints(pol, invs)
        \o check_risk_management(pol, invs)

\* validate_portfolio (65-91).
validate_portfolio(pol, invs) ==
    check_country_limits(pol, invs)
        \o check_theme_limits(pol, invs)
        \o check_security_lists(pol, invs)
        \o check_esg_constraints(pol, invs)
        \o check_risk_management(pol, invs)

\* Faulty variant: the sector list is consulted before the company list.
is_security_allowed_sector_first(pol, symbol, sector, esg_score) ==
    LET security_lists == Get(pol, "security_lists", EmptyMapping)
        blacklist == Get(security_lists, "blacklist", EmptyMapping)
        esg_blacklist == Get(blacklist, "esg_blacklist", EmptyMapping)
        min_esg_score == Get(esg_blacklist, "min_esg_score", 0)
    IN IF InList(sector, Get(blacklist, "sectors", <<>>))
       THEN <<FALSE, [text |-> "Sector is blacklisted", subject |-> <<sector>>]>>
       ELSE IF InList(symbol, Get(blacklist, "companies", <<>>))
       THEN <<FALSE, [text |-> "Security is blacklisted", subject |-> <<symbol>>]>>
       ELSE IF esg_score < min_esg_score
       THEN <<FALSE, [text |-> "ESG score below minimum",
                      subject |-> <<esg_score, min_esg_score>>]>>
       ELSE <<TRUE, [text |-> "Security is allowed", subject |-> <<>>]>>

\* is_security_allowed (320-350): the pair (is_allowed, reason); of the reason
\* the fixed wording and the value it names are kept.
is_security_allowed(pol, symbol, sector, esg_score) ==
    LET security_lists == Get(pol, "security_lists", EmptyMapping)
        blacklist == Get(security_lists, "blacklist", EmptyMapping)
        esg_blacklist == Get(blacklist, "esg_blacklist", EmptyMapping)
        min_esg_score == Get(esg_blacklist, "min_esg_score", 0)
    IN IF InList(symbol, Get(blacklist, "companies", <<>>))
       THEN <<FALSE, [text |-> "Security is blacklisted", subject |-> <<symbol>>]>>
       ELSE IF InList(sector, Get(blacklist, "sectors", <<>>))
       THEN <<FALSE, [text |-> "Sector is blacklisted", subject |-> <<sector>>]>>
       ELSE IF esg_score < min_esg_score
       THEN <<FALSE, [text |-> "ESG score below minimum",
                      subject |-> <<esg_score, min_esg_score>>]>>
       ELSE <<TRUE, [text |-> "Security is allowed", subject |-> <<>>]>>

\* The arguments of the single-security screen.
ScreenArguments ==
    {[symbol |-> s, sector |-> c, esg_score |-> e] :
        s \in {"AAPL", "EVIL_CORP", "TBH"},
        c \in {"technology", "tobacco_manufacturing"},
        e \in {2, 6, 8}}

\* A YAML file that holds a list and not a mapping, as yaml.safe_load gives it.
YamlList == [isNone |-> FALSE, isList |-> TRUE, val |-> <<"version">>]

\* The object has a `get` attribute: a dict has one, None and a list have not.
HasGet(v) == ~v.isNone /\ "isList" \notin DOMAIN v

\* The file at the path given to the constructor: absent; not valid YAML; or
\* YAML, with what yaml.safe_load gives for it: a configuration, None for an
\* empty file, a list.
PolicyFiles ==
    {[kind |-> "absent"], [kind |-> "invalid"]}
        \cup {[kind |-> "yaml", loads |-> v] :
                 v \in {Dict(p) : p \in PolicyConfigs} \cup {None, YamlList}}

\* The policy_file_path argument: None by default, or a path.
PolicyFilePaths == {None, [isNone |-> FALSE, val |-> "policies.yaml"]}

\* The path used when none is given (46-50).
DefaultPolicyFile == "docs/policies.yaml"

\* _load_policies (55-63): the value loaded, or the exception raised in
\* place of the FileNotFoundError of open or the YAMLError of yaml.safe_load.
PolicyEngine_load_policies(file) ==
    CASE file.kind = "absent" -> [raised |-> "FileNotFoundError"]
      [] file.kind = "invalid" -> [raised |-> "ValueError"]
      [] file.kind = "yaml" -> [returned |-> file.loads]

\* PolicyEngine(policy_file_path) (40-53).  When _load_policies raises, the
\* exception leaves the constructor and the caller is given no engine: the
\* one it held, if any, stays as it was.
NewPolicyEngine ==
    /\ pc = "idle"
    /\ \E path \in PolicyFilePaths, file \in PolicyFiles :
         LET policy_file_path == IF path.isNone THEN DefaultPolicyFile
                                 ELSE path.val
             loaded == PolicyEngine_load_policies(file)
         IN /\ req' = [op |-> "PolicyEngine", policy_file_path |-> path,
                       file |-> file]
            /\ IF "raised" \in DOMAIN loaded
               THEN /\ result' = [raised |-> loaded.raised,
                                  policy_file_path |-> policy_file_path]
                    /\ exit' = "Raised"
                    /\ UNCHANGED <<constructed, policies>>
               ELSE /\ result' = [policy_file_path |-> policy_file_path,
                                  policies |-> loaded.returned]
                    /\ exit' = "Returned"
                    /\ constructed' = TRUE
                    /\ policies' = loaded.returned
    /\ pc' = "done"
    /\ UNCHANGED <<globals, problem, idx, tried, answer, hung, log, chained,
                   prevResult, prevExit, loadReturn, api, investments>>

\* The caller builds its list of investments.
NewPortfolio ==
    /\ pc = "idle"
    /\ \E p \in Portfolios : investments' = p
    /\ UNCHANGED <<globals, call, chained, prevResult, prevExit, loadReturn,
                   api, constructed, policies>>

\* A call of a PolicyEngine method.  Each of them starts, itself or in the
\* first check it calls, with self.policies.get(...) (96, 191, 331), which raises
\* AttributeError when the file loaded to something that is not a mapping.
EngineCall(r, value) ==
    /\ pc = "idle"
    /\ constructed
    /\ req' = r
    /\ IF HasGet(policies)
       THEN result' = value /\ exit' = "Returned"
       ELSE result' = [raised |-> "AttributeError"] /\ exit' = "Raised"
    /\ pc' = "done"
    /\ UNCHANGED <<globals, problem, idx, tried, answer, hung, log, chained,
                   prevResult, prevExit, loadReturn, api, engine>>

ValidatePortfolio ==
    EngineCall([op |-> "validate_portfolio", investments |-> investments],
               validate_portfolio(policies.val, investments))

CheckCountryLimits ==
    EngineCall([op |-> "check_country_limits", investments |-> investments],
               check_country_limits(policies.val, investments))

CheckSecurityLists ==
    EngineCall([op |-> "check_security_lists", investments |-> investments],
               check_security_lists(policies.val, investments))

IsSecurityAllowed ==
    \E a \in ScreenArguments :
        EngineCall([op |-> "is_security_allowed", symbol |-> a.symbol,
                    sector |-> a.sector, esg_score |-> a.esg_score],
                   is_security_allowed(policies.val, a.symbol, a.sector,
                                       a.esg_score))

NextPolicy ==
    NewPolicyEngine \/ NewPortfolio \/ ValidatePortfolio \/ CheckCountryLimits
        \/ CheckSecurityLists \/ IsSecurityAllowed \/ Return

SpecPolicy == Init /\ [][NextPolicy]_vars

\* The caller optimises the same mu and Sigma again with a higher
\* risk_aversion (test_mean_variance_different_risk_aversion).
Reoptimize ==
    /\ pc = "done"
    /\ endpoint = "none"
    /\ req.op = "mv"
    /\ ~chained
    /\ \E ra \in RiskAversions :
         /\ ra > req.risk_aversion
         /\ Start([req EXCEPT !.risk_aversion = ra])
    /\ chained' = TRUE
    /\ prevResult' = result
    /\ prevExit' = exit
    /\ UNCHANGED <<loadReturn, engine, api>>

Next == LoadPolicies \/ Call \/ Invoke \/ BackendAnswer \/ BackendHang
          \/ Return \/ Reapply \/ EstimateMuSigma \/ Reoptimize

Spec == Init /\ [][Next]_vars

\* The service as its HTTP clients drive it: the optimize and risk-metrics
\* endpoints, with the cascade of mean_variance_optimize in between, and the
\* logging helpers as other code of the process calls them.
NextApi == OptimizeCall \/ RiskMetrics \/ Invoke \/ BackendAnswer
             \/ BackendHang \/ Respond \/ Return \/ GetLogger
             \/ LogBacktestResults

SpecApi == Init /\ [][NextApi]_vars

\* ================================================================ claims

\* The order the repair cascade is specified to follow.
SpecifiedRepairOrder == <<"CLARABEL", "SCS", "OSQP">>

IsPrefix(s, t) == Len(s) <= Len(t) /\ s = SubSeq(t, 1, Len(s))

\* C1: in the repair cascade the backends are invoked one at a time in the
\* order CLARABEL, SCS, OSQP; when a backend reports optimal the call returns
\* that backend's solution at once, and no further backend is invoked in it.
C1_SequentialShortCircuit ==
    [][/\ (req.op = "repair" /\ tried' # tried /\ tried' # <<>>) =>
             /\ pc = "cascade" /\ pc' = "solving"
             /\ Len(tried') = Len(tried) + 1
             /\ IsPrefix(tried, tried')
             /\ IsPrefix(tried', SpecifiedRepairOrder)
             /\ answer.status # "optimal"
       /\ (pc = "solving" /\ answer'.status = "optimal") =>
             /\ pc' = "done"
             /\ exit' = "return_solution"
             /\ result' = SolutionValue(req, answer'.value)
             /\ tried' = tried
       /\ (pc = "done" /\ pc' # "done") => tried' = <<>>
      ]_vars

\* C1 witness: the second backend reported optimal after the first did not,
\* and the repair returned its solution.
C1_Witness ==
    /\ pc = "done" /\ req.op = "repair" /\ exit = "return_solution"
    /\ tried = <<"CLARABEL", "SCS">>
    /\ answer.status = "optimal"
    /\ result = SolutionValue(req, answer.value)

\* Number of backends each variant's list is specified to hold.
SpecifiedListLength(op) == IF op = "repair" THEN 3 ELSE 1

\* C2: whatever non-optimal answer a backend gives (an exception, or status
\* infeasible or a numerical failure), the call neither returns nor raises
\* while a backend is left: it moves to the next one; after the last one it
\* returns the fallback.  The step taken does not depend on which of the
\* non-optimal answers was given.
C2_NonOptimalProceeds ==
    [][(pc = "solving" /\ answer' # answer /\ answer'.status # "optimal") =>
          IF Len(tried) < SpecifiedListLength(req.op)
          THEN /\ pc' = "cascade"
               /\ idx' = idx + 1
               /\ exit' = "none"
               /\ result' = <<>>
          ELSE /\ pc' = "done"
               /\ exit' = "fallback"
      ]_vars

\* C2 witness: the first backend reported infeasible and the cascade is
\* about to invoke the second.
C2_Witness ==
    /\ pc = "cascade" /\ req.op = "repair" /\ idx = 2
    /\ answer.kind = "status" /\ answer.status = "infeasible"
    /\ tried = <<"CLARABEL">>

\* C3 (as claimed): when all three backends were tried and none reported
\* optimal, the repair returns normally its input weight map itself (same
\* keys, same values) with status FallbackApplied: what the caller is given
\* shows the fallback, so it is none of the values the same call returns
\* when a backend reports optimal.
C3_FallbackReturnsTaggedInput ==
    (pc = "done" /\ req.op = "repair" /\ answer.status # "optimal") =>
        /\ tried = SpecifiedRepairOrder
        /\ DOMAIN result.k = DOMAIN req.weights.k
        /\ \A a \in DOMAIN req.weights.k :
             result.k[a] * req.weights.q = req.weights.k[a] * result.q
        /\ \A a \in BackendAnswers(problem) :
             a.status = "optimal" => result # SolutionValue(req, a.value)

\* C4: when the backend of a mean-variance or CVaR problem raises or reports
\* a non-optimal status, the call returns normally the vector holding exactly
\* 1/N for each of the N assets.
C4_OptimiserFallbackIsEqualWeights ==
    (pc = "done" /\ req.op \in {"mv", "cvar"} /\ answer.status # "optimal") =>
        /\ exit = "fallback"
        /\ Len(result.k) = req.n
        /\ \A i \in 1..req.n : result.k[i] * req.n = Den * result.q

\* C4 witness: a three-asset mean-variance call whose backend raised
\* returned 1/3 for each asset.
C4_Witness ==
    /\ pc = "done" /\ req.op = "mv" /\ req.n = 3
    /\ answer.kind = "raise"
    /\ result = Exact(<<Den \div 3, Den \div 3, Den \div 3>>)

\* C5 (as claimed): the returned value tells a solved result from a fallback
\* one, so the value returned on the optimal path never equals the value the
\* fallback path returns for the same request.
C5_FallbackDistinguishable ==
    (pc = "done" /\ exit = "return_solution") => result # FallbackValue(req)

\* C6 (as claimed): a backend that never answers cannot block the call, so
\* whenever the invoked backend will not answer, a step is still possible.
C6_HungBackendDoesNotBlock ==
    (pc = "solving" /\ hung) => ENABLED Next

\* The mapping the repair uses for a group dimension: `mapping or GLOBAL`.
EffectiveSectorMap == PyOr(req.sector_mapping, SECTOR_MAP)

EffectiveCountryMap == PyOr(req.country_mapping, COUNTRY_MAP)

\* Sum of the weights w (a dict) of the assets that mapping sends to group g.
GroupWeight(w, mapping, g) ==
    SumOver(w.k, {a \in DOMAIN w.k : GetIs(mapping, a, g)})

TotalWeight(w) == SumOver(w.k, DOMAIN w.k)

RespectsGroupCaps(w, caps, mapping) ==
    \A g \in DOMAIN caps.val :
       GroupWeight(w, mapping, g) <= caps.val[g] * w.q

\* The weight map w sums to 1, is non-negative, within the per-asset cap and
\* within every supplied sector cap.
MeetsRepairContract(w) ==
    /\ TotalWeight(w) = Den * w.q
    /\ \A a \in DOMAIN w.k :
         w.k[a] >= 0 /\ w.k[a] <= req.max_concentration * w.q
    /\ RespectsGroupCaps(w, req.sector_caps, EffectiveSectorMap)

\* C7 (as claimed): for every input, infeasible caps included, the returned
\* weights sum to 1, are non-negative, are at most max_concentration, and
\* respect every supplied sector cap.
C7_RepairAlwaysMeetsCaps ==
    (pc = "done" /\ req.op = "repair") => MeetsRepairContract(result)

\* C7 (amended): the weights returned on the optimal path sum to 1, are
\* non-negative, are at most max_concentration, and respect every supplied
\* sector cap; on the fallback path the input is returned whatever it violates.
C7_SolvedRepairMeetsCaps ==
    (pc = "done" /\ req.op = "repair") =>
        IF exit = "return_solution" THEN MeetsRepairContract(result)
        ELSE result = req.weights

\* C7 witness: a solved repair of an input above the per-asset cap and above
\* a sector cap.
C7_Witness ==
    /\ pc = "done" /\ req.op = "repair" /\ exit = "return_solution"
    /\ \E a \in DOMAIN req.weights.k :
         req.weights.k[a] > req.max_concentration * req.weights.q
    /\ Truthy(req.sector_caps)
    /\ ~RespectsGroupCaps(req.weights, req.sector_caps, EffectiveSectorMap)
    /\ result # req.weights

ViolatesAssetCap(w) ==
    \E a \in DOMAIN w.k : w.k[a] > req.max_concentration * w.q

ViolatesGroupCap(w) ==
    \/ ~RespectsGroupCaps(w, req.sector_caps, EffectiveSectorMap)
    \/ ~RespectsGroupCaps(w, req.country_caps, EffectiveCountryMap)

\* The problem formulated for the call carries a sector or country constraint.
HasGroupConstraint == \E c \in problem.constraints : c.kind = "group_le"

\* The weight map is non-negative and sums to 1.
IsPortfolio(w) ==
    TotalWeight(w) = Den * w.q /\ \A a \in DOMAIN w.k : w.k[a] >= 0

\* C8 (as claimed): whenever the input violates a supplied per-asset, sector
\* or country cap, the HHI of the returned weights is at most the input's.
C8_RepairNeverRaisesHHI ==
    (pc = "done" /\ req.op = "repair"
       /\ (ViolatesAssetCap(req.weights) \/ ViolatesGroupCap(req.weights))) =>
        Leq(HHIOf(result), HHIOf(req.weights))

\* C8 (amended): whenever the input is non-negative, sums to 1 and exceeds
\* the per-asset cap, and the problem carries no sector or country
\* constraint, the HHI of the returned weights is at most the input's.
C8_CapOnlyRepairNeverRaisesHHI ==
    (pc = "done" /\ req.op = "repair" /\ IsPortfolio(req.weights)
       /\ ViolatesAssetCap(req.weights) /\ ~HasGroupConstraint) =>
        Leq(HHIOf(result), HHIOf(req.weights))

\* C8 witness: a solved repair of the uneven portfolio under a per-asset cap
\* of 1/2 alone, with a strictly lower HHI.
C8_Witness ==
    /\ pc = "done" /\ req.op = "repair" /\ exit = "return_solution"
    /\ req.weights = Exact(UnevenPortfolio)
    /\ req.max_concentration = Den \div 2
    /\ ~HasGroupConstraint
    /\ ~Leq(HHIOf(req.weights), HHIOf(result))

\* C9: when the input sums to 1, is non-negative and within the per-asset cap
\* and every group cap, the repair returns it unchanged; and repairing again
\* the result of a solved repair, with the same caps, returns that result.
C9_FeasibleInputUnchanged ==
    /\ (pc = "done" /\ req.op = "repair" /\ IsPortfolio(req.weights)
          /\ ~ViolatesAssetCap(req.weights) /\ ~ViolatesGroupCap(req.weights)) =>
           result = req.weights
    /\ (pc = "done" /\ req.op = "repair" /\ chained /\ prevExit = "return_solution") =>
           result = prevResult

\* C9 witness: a solved repair changed its input, and the solved repair of
\* its result returned that result.
C9_Witness ==
    /\ pc = "done" /\ req.op = "repair" /\ chained
    /\ prevExit = "return_solution" /\ exit = "return_solution"
    /\ HasGroupConstraint
    /\ \E a \in DOMAIN result.k :
         result.q # 1 \/ result.k[a] \notin WeightLevels
    /\ result = prevResult

\* Bounds the overrides of a mean-variance request put on each weight.
UpperOverride == IF HasKey(req.constraints, "max_weight")
                 THEN req.constraints.val["max_weight"] ELSE Den

LowerOverride == IF HasKey(req.constraints, "min_weight")
                 THEN req.constraints.val["min_weight"] ELSE 0

WithinOverrides(w) ==
    \A i \in 1..Len(w.k) :
       w.k[i] <= UpperOverride * w.q /\ w.k[i] >= LowerOverride * w.q

\* C10 (as claimed): the weights a mean-variance call returns sum to 1, are
\* non-negative, and lie within the max_weight / min_weight overrides.
C10_MVMeetsBounds ==
    (pc = "done" /\ req.op = "mv") =>
        /\ SumSeq(result.k) = Den * result.q
        /\ \A i \in 1..Len(result.k) : result.k[i] >= 0
        /\ WithinOverrides(result)

\* C10 (amended): the weights a mean-variance call returns sum to 1 and are
\* non-negative; they lie within the max_weight / min_weight overrides
\* whenever some portfolio of N assets does (min_weight <= 1/N <= max_weight).
C10_MVMeetsSatisfiableBounds ==
    (pc = "done" /\ req.op = "mv") =>
        /\ SumSeq(result.k) = Den * result.q
        /\ \A i \in 1..Len(result.k) : result.k[i] >= 0
        /\ (LowerOverride * req.n <= Den /\ Den <= UpperOverride * req.n) =>
               WithinOverrides(result)

\* C10 witness: a solved three-asset call with both overrides, whose best
\* asset sits at max_weight and whose worst asset sits at min_weight.
C10_Witness ==
    /\ pc = "done" /\ req.op = "mv" /\ exit = "return_solution" /\ req.n = 3
    /\ HasKey(req.constraints, "max_weight")
    /\ HasKey(req.constraints, "min_weight")
    /\ result.k[3] = UpperOverride * result.q
    /\ result.k[1] = LowerOverride * result.q

\* The values concentration_repair can return on its optimal path for the
\* request r when the cached mappings are sectorGlobal and countryGlobal.
SolvedRepairResults(r, sectorGlobal, countryGlobal) ==
    {SolutionValue(r, v) :
       v \in Minimisers(RepairProblem(r, sectorGlobal, countryGlobal))}

\* C11 (as claimed): the result of a repair call is a function of its request
\* inputs only, so whatever ran before it, a solved repair returns a value the
\* same request returns in a process where nothing ran before.
C11_ResultDependsOnRequestOnly ==
    (pc = "done" /\ req.op = "repair" /\ exit = "return_solution") =>
        result \in SolvedRepairResults(req, None, None)

\* C12 (as claimed): once load_policies has returned for the first time, no
\* later operation changes POLICIES, SECTOR_MAP or COUNTRY_MAP, and every
\* later load_policies call returns the policies the first one returned.
C12_SnapshotLoadedOnce ==
    loadReturn.returned =>
        /\ globals = loadReturn.snapshot
        /\ loadReturn.last = loadReturn.first

\* ------------------------------------------------- claims on the endpoints

\* C13 (as claimed): a failure of the logging sink, in the construction of the
\* logger, in the experiment setup or in the logging of the run, never aborts
\* the optimize call and never changes its response: whatever the sink does,
\* the response is the one built from the weights mean_variance_optimize
\* returned.
C13_LoggingNeverAltersResponse ==
    (pc = "responded" /\ endpoint = "optimize" /\ req.op = "mv") =>
        response = OptimizeResponse(req, result)

\* The expected returns are not one value per listed asset, or the
\* covariance matrix is not N x N for the N listed assets.
DimensionMismatch(r) ==
    \/ DOMAIN r.expected_returns # {r.assets[i] : i \in 1..Len(r.assets)}
    \/ Len(r.covariance_matrix) # Len(r.assets)
    \/ \E i \in 1..Len(r.covariance_matrix) :
         Len(r.covariance_matrix[i]) # Len(r.assets)

\* C14 (as claimed): an optimize request with a dimension mismatch fails
\* (status 500, no portfolio in the response) without mean_variance_optimize
\* being called: no problem is formulated, no backend invoked, no fallback
\* produced.
C14_MismatchFailsBeforeSolver ==
    (endpoint = "optimize" /\ DimensionMismatch(request)) =>
        /\ pc = "responded"
        /\ response.code = 500
        /\ "portfolio" \notin DOMAIN response
        /\ req = NoRequest /\ problem = NoProblem
        /\ tried = <<>>
        /\ exit = "none" /\ result = <<>>

\* C15 (as claimed): for a covariance matrix of the right shape that is not
\* symmetric or not positive semi-definite, no portfolio, optimal or
\* fallback, is returned.
C15_InvalidCovarianceRejected ==
    (pc = "responded" /\ endpoint = "optimize"
       /\ ~DimensionMismatch(request)
       /\ (~IsSymmetric(request.covariance_matrix)
             \/ ~IsPSD(request.covariance_matrix))) =>
        response.code # 200

\* C17 (as claimed): an empty portfolio gets a risk-metrics response with
\* HHI = 0 and effective-N undefined, and a portfolio of zero volatility gets
\* an optimize response with Sharpe ratio 0; neither call fails.
C17_DegenerateInputsGiveSentinels ==
    /\ (pc = "responded" /\ endpoint = "risk-metrics"
          /\ DOMAIN request.weights.k = {}) =>
           /\ response.code = 200
           /\ response.concentration_hhi = FloatZero
           /\ response.effective_num_stocks = None
    /\ (pc = "responded" /\ endpoint = "optimize" /\ req.op = "mv"
          /\ req.sigma = ZeroMatrix(req.n) /\ response.code = 200) =>
           response.metrics.sharpe_ratio.isZero

\* Sum of |w - b| over the union of the keys, an absent key counting as 0.
ActiveDistance(w, b) ==
    LET keys == DOMAIN w \cup DOMAIN b
        d == [a \in keys |->
                AbsOf((IF a \in DOMAIN w THEN w[a] ELSE 0)
                        - (IF a \in DOMAIN b THEN b[a] ELSE 0))]
    IN SumOver(d, keys)

\* C18 (as claimed): for every supplied benchmark, the empty one included,
\* active share is 0.5 times the sum of |w - b| over the union of the keys
\* (the response carries it in units of 1/(2 * Den)).
C18_ActiveShareOverUnion ==
    (pc = "responded" /\ endpoint = "risk-metrics" /\ response.code = 200
       /\ ~request.benchmark_weights.isNone) =>
        response.active_share =
            Dict(ActiveDistance(request.weights.k,
                                request.benchmark_weights.val))

\* ------------------------------------------- claims on the constraint list

\* The capped groups to which the mapping sends an asset of the request.
MatchedGroups(caps, mapping) ==
    IF caps.isNone \/ mapping.isNone THEN {}
    ELSE {g \in DOMAIN caps.val :
            \E a \in DOMAIN req.weights.k :
               a \in DOMAIN mapping.val /\ mapping.val[a] = g}

\* The list holds exactly one constraint for each matched group, bounding the
\* sum of the weights of that group's assets by its cap, and nothing else.
OnePerMatchedGroup(appended, caps, mapping) ==
    /\ \A g \in MatchedGroups(caps, mapping) :
         \E k \in DOMAIN appended :
            /\ appended[k].group = g
            /\ appended[k].rhs = caps.val[g]
            /\ {AssetUniverse[i] : i \in appended[k].idx} =
                 {a \in DOMAIN req.weights.k :
                    a \in DOMAIN mapping.val /\ mapping.val[a] = g}
            /\ \A j \in DOMAIN appended : appended[j].group = g => j = k
    /\ \A k \in DOMAIN appended :
         appended[k].group \in MatchedGroups(caps, mapping)

\* C16 (as claimed): the repair formulates its problem without error with
\* exactly one aggregate constraint sum <= cap for each capped sector or
\* country to which an asset of the portfolio is mapped, none for a capped
\* group without assets; and the second implementation, called with the same
\* weights, caps and sector mapping, formulates the same set of group
\* constraints.
C16_BothImplementationsSameConstraints ==
    (pc # "idle" /\ req.op = "repair") =>
        LET sector == GroupConstraintsAppended("sector", req.sector_caps,
                                               EffectiveSectorMap, req.n)
            country == GroupConstraintsAppended("country", req.country_caps,
                                                EffectiveCountryMap, req.n)
        IN /\ OnePerMatchedGroup(sector, req.sector_caps, EffectiveSectorMap)
           /\ OnePerMatchedGroup(country, req.country_caps, EffectiveCountryMap)
           /\ {c \in problem.constraints : c.kind = "group_le"} =
                SetOf(sector) \cup SetOf(country)
           /\ {c \in problem.constraints : c.kind = "group_le"} =
                SetOf(SectorConstraintsByMapping(req.sector_caps,
                                                 req.sector_mapping, req.n))

\* C16: the repair formulates its problem without error with exactly one
\* aggregate constraint sum <= cap for each capped sector or country to which
\* an asset of the portfolio is mapped, none for a capped group without
\* assets.  The second implementation, called with the same weights, caps and
\* sector mapping, formulates sector constraints only; they are the sector
\* constraints of the repair unless the repair took the cached SECTOR_MAP in
\* place of a mapping that was not passed (or was empty), and then the second
\* implementation formulates none.
C16_OneConstraintPerMatchedGroup ==
    (pc # "idle" /\ req.op = "repair") =>
        LET sector == GroupConstraintsAppended("sector", req.sector_caps,
                                               EffectiveSectorMap, req.n)
            country == GroupConstraintsAppended("country", req.country_caps,
                                                EffectiveCountryMap, req.n)
            second == SectorConstraintsByMapping(req.sector_caps,
                                                 req.sector_mapping, req.n)
        IN /\ OnePerMatchedGroup(sector, req.sector_caps, EffectiveSectorMap)
           /\ OnePerMatchedGroup(country, req.country_caps, EffectiveCountryMap)
           /\ {c \in problem.constraints : c.kind = "group_le"} =
                SetOf(sector) \cup SetOf(country)
           /\ \A c \in SetOf(second) : c.dim = "sector"
           /\ IF Truthy(req.sector_mapping) \/ ~Truthy(SECTOR_MAP)
              THEN SetOf(second) = SetOf(sector)
              ELSE second = <<>>

\* C16 witness: a repair called with a sector mapping and with caps on Tech,
\* to which assets are mapped, and on Energy, to which none is, formulated
\* one sector constraint, the one the second implementation formulates.
C16_Witness ==
    /\ pc = "cascade" /\ req.op = "repair" /\ req.n = 3
    /\ DOMAIN req.sector_caps.val = {"Tech", "Energy"}
    /\ Truthy(req.sector_mapping)
    /\ Cardinality({c \in problem.constraints : c.kind = "group_le"}) = 1
    /\ \E c \in problem.constraints : c.kind = "group_le" /\ c.group = "Tech"
    /\ {c \in problem.constraints : c.kind = "group_le"} =
         SetOf(SectorConstraintsByMapping(req.sector_caps, req.sector_mapping,
                                          req.n))

\* ------------------------------------------- claims on the concentration

ToleranceDigits == 10

RECURSIVE BigPow10(_)
BigPow10(n) == IF n = 0 THEN <<1>> ELSE BigMulDigit(BigPow10(n - 1), 10, 0)

\* |x - num / den| <= 10^-ToleranceDigits, for a binary64 x and naturals
\* num >= 0, den > 0 of any size.
FloatNearBig(x, num, den) ==
    LET up    == IF x.e > 0 THEN x.e ELSE 0
        down  == IF x.e < 0 THEN -x.e ELSE 0
    IN \E sides \in {<<Shift(BigMul(x.m, den), up), Shift(num, down)>>} :
          LET left  == sides[1]
              right == sides[2]
              diff  == IF BigLeq(left, right) THEN BigSub(right, left)
                       ELSE BigSub(left, right)
          IN BigLeq(BigMul(diff, BigPow10(ToleranceDigits)), Shift(den, down))

\* |x - num / den| <= 10^-ToleranceDigits, for a binary64 x and integers
\* num >= 0, den > 0.
FloatNear(x, num, den) == FloatNearBig(x, BigOf(num), BigOf(den))

RECURSIVE BigSumOver(_, _)
BigSumOver(f, S) ==
    IF S = {} THEN <<>>
    ELSE LET i == CHOOSE x \in S : TRUE
         IN BigAdd(f[i], BigSumOver(f, S \ {i}))

\* The exact sum of the values of a dict, over FineDen.
ExactTotal(weights) ==
    BigSumOver([a \in DOMAIN weights.k |-> ExactValue(weights, a)],
               DOMAIN weights.k)

\* The exact sum of the squared values of a dict, over FineDen^2.
ExactSumOfSquares(weights) ==
    BigSumOver([a \in DOMAIN weights.k |->
                  CHOOSE sq \in {BigMul(v, v) :
                                   v \in {ExactValue(weights, a)}} : TRUE],
               DOMAIN weights.k)

FineDenSquared == BigMul(FineDen, FineDen)

\* a < b
BigLess(a, b) == BigLeq(a, b) /\ a # b

\* The values are non-negative and sum to 1.
FullyInvested(weights) ==
    /\ \A a \in DOMAIN weights.k : weights.k[a] >= 0
    /\ ExactTotal(weights) = FineDen

AllEqual(weights) ==
    \A a, b \in DOMAIN weights.k :
       ExactValue(weights, a) = ExactValue(weights, b)

\* C19 (as claimed): for every weight map of N assets the HHI returned is
\* the sum of the squared weights, lies in [1/N, 1], and is 1/N iff all
\* weights are equal.
C19_HHIBoundsForAllMaps ==
    (pc = "responded" /\ endpoint = "risk-metrics" /\ response.code = 200) =>
        LET w == request.weights
            N == Cardinality(DOMAIN w.k)
            h == response.concentration_hhi
        IN /\ FloatNearBig(h, ExactSumOfSquares(w), FineDenSquared)
           /\ FloatLeq(FloatOf(1, N), h)
           /\ FloatLeq(h, FloatOne)
           /\ (h = FloatOf(1, N)) <=> AllEqual(w)

\* C19 (amended): for every weight map of N assets that is non-negative and
\* sums to 1, the HHI returned is the sum S of the squared weights up to
\* rounding; S lies in [1/N, 1] and is 1/N iff all weights are equal, and
\* then the value returned is within rounding of 1/N.
C19_HHIBoundsForPortfolios ==
    (pc = "responded" /\ endpoint = "risk-metrics" /\ response.code = 200
       /\ FullyInvested(request.weights)) =>
        LET w == request.weights
            N == Cardinality(DOMAIN w.k)
            h == response.concentration_hhi
        IN \E S \in {ExactSumOfSquares(w)} :
              /\ FloatNearBig(h, S, FineDenSquared)
              /\ BigLeq(FineDenSquared, BigMul(S, BigOf(N)))
              /\ BigLeq(S, FineDenSquared)
              /\ (BigMul(S, BigOf(N)) = FineDenSquared) <=> AllEqual(w)
              /\ AllEqual(w) => FloatNear(h, 1, N)

\* C19 witness: the HHI of the uneven portfolio of three assets, strictly
\* between 1/3 and 1.
C19_Witness ==
    /\ pc = "responded" /\ endpoint = "risk-metrics" /\ response.code = 200
    /\ request.weights.k = UnevenPortfolio
    /\ ~FloatLeq(response.concentration_hhi, FloatOf(1, 3))
    /\ ~FloatLeq(FloatOne, response.concentration_hhi)

\* The parts of C20 that do not depend on rounding: an effective number is
\* reported whenever HHI > 0, and it is 1 for a single asset of weight 1.
EffectiveNumberCases(w, h, e) ==
    h # FloatZero =>
       /\ ~e.isNone
       /\ (Cardinality(DOMAIN w.k) = 1 /\ FullyInvested(w)) => e.val = FloatOne

\* C20 (as claimed): effective-N is 1/HHI whenever HHI > 0; it is exactly N
\* for N equal weights of 1/N, 1 for a single asset, and strictly less than N
\* for unequal weights that sum to 1.
C20_EffectiveNumberExact ==
    (pc = "responded" /\ endpoint = "risk-metrics" /\ response.code = 200) =>
        LET w == request.weights
            N == Cardinality(DOMAIN w.k)
            h == response.concentration_hhi
            e == response.effective_num_stocks
        IN /\ EffectiveNumberCases(w, h, e)
           /\ (h # FloatZero /\ FullyInvested(w) /\ AllEqual(w)) =>
                  e.val = FloatOf(N, 1)
           /\ (h # FloatZero /\ FullyInvested(w) /\ ~AllEqual(w)) =>
                  /\ FloatLeq(e.val, FloatOf(N, 1))
                  /\ e.val # FloatOf(N, 1)

\* C20 (amended): effective-N is 1/HHI whenever HHI > 0, up to rounding; it
\* is within rounding of N for N equal weights of 1/N and exactly 1 for a
\* single asset; for unequal weights that sum to 1 the exact 1/HHI is less
\* than N, and the value reported is less than N or within rounding of N.
C20_EffectiveNumberIsInverseHHI ==
    (pc = "responded" /\ endpoint = "risk-metrics" /\ response.code = 200) =>
        LET w == request.weights
            N == Cardinality(DOMAIN w.k)
            h == response.concentration_hhi
            e == response.effective_num_stocks
        IN \E S \in {ExactSumOfSquares(w)} :
              /\ EffectiveNumberCases(w, h, e)
              /\ h # FloatZero => FloatNearBig(e.val, FineDenSquared, S)
              /\ (h # FloatZero /\ FullyInvested(w) /\ AllEqual(w)) =>
                     FloatNear(e.val, N, 1)
              /\ (h # FloatZero /\ FullyInvested(w) /\ ~AllEqual(w)) =>
                     /\ BigLess(FineDenSquared, BigMul(S, BigOf(N)))
                     /\ FloatLeq(e.val, FloatOf(N, 1)) \/ FloatNear(e.val, N, 1)

\* C20 witness: two unequal weights that sum to 1, 0.5000000000000001 and
\* 0.4999999999999999, were reported the effective number 2, the number of
\* assets itself.
C20_Witness ==
    /\ pc = "responded" /\ endpoint = "risk-metrics" /\ response.code = 200
    /\ request.weights \in NearlyEqualHalves
    /\ FullyInvested(request.weights) /\ ~AllEqual(request.weights)
    /\ response.concentration_hhi = FloatOf(1, 2)
    /\ response.effective_num_stocks = Dict(FloatOf(2, 1))

\* ------------------------------------------- claims of the third group

\* C28 (as claimed): an optimize request whose covariance matrix is not N x N
\* for the N listed assets is answered with status 400, "Covariance matrix
\* dimension mismatch", not with status 500.
C28_ShapeMismatchAnswered400 ==
    (pc = "responded" /\ endpoint = "optimize"
       /\ OptimizeFailure(request) = "Covariance matrix dimension mismatch") =>
        /\ response.code = 400
        /\ response.detail = "Covariance matrix dimension mismatch"

\* C29 (as claimed): in every state reached by load_policies calls, the ones
\* that fail part-way included, POLICIES being set implies that SECTOR_MAP and
\* COUNTRY_MAP are set too.
C29_PoliciesImplyGroupMaps ==
    ~POLICIES.isNone => (~SECTOR_MAP.isNone /\ ~COUNTRY_MAP.isNone)

\* C23 (as claimed): estimate_mu_sigma fails with InputShapeError, returning
\* no estimate, when the history has fewer than 2 observations, and returns
\* an estimate otherwise, a history shorter than the lookback included.
C23_ShortHistoryRaisesInputShapeError ==
    (pc = "done" /\ req.op = "estimate") =>
        IF Len(req.returns_data) < 2
        THEN exit = "InputShapeError" /\ result = <<>>
        ELSE exit = "Returned"

\* A second mean-variance call on the same mu and Sigma with a higher
\* risk_aversion has returned.
SecondMVReturned == pc = "done" /\ req.op = "mv" /\ chained

\* Portfolio return mu' w of a weight vector, in units of 1/(100 * Den).
ReturnOf(w) == [num |-> Dot(req.mu, w.k, req.n), den |-> w.q]

\* C22 as stated: raising risk_aversion on the same mu and Sigma never raises
\* the expected portfolio return, whichever path (optimal or fallback) each of
\* the two calls returned on.
C22_ReturnMonotoneOnEveryPath ==
    SecondMVReturned => Leq(ReturnOf(result), ReturnOf(prevResult))

\* C22: raising risk_aversion on the same mu and Sigma never raises the
\* expected portfolio return when both calls returned on the same path (both
\* optimal, or both the equal-weight fallback).
C22_ReturnMonotoneOnSamePath ==
    (SecondMVReturned /\ exit = prevExit)
        => Leq(ReturnOf(result), ReturnOf(prevResult))

\* Both calls were solved to optimality and the higher risk_aversion gave a
\* strictly lower expected return.
C22_Witness ==
    /\ SecondMVReturned
    /\ exit = "return_solution"
    /\ prevExit = "return_solution"
    /\ ~Leq(ReturnOf(prevResult), ReturnOf(result))

\* A mean-variance call with risk_aversion below 1e-4 has returned after ECOS
\* stopped short of convergence.
LowLambdaNotConverged ==
    /\ pc = "done"
    /\ req.op = "mv"
    /\ req.risk_aversion * 10000 < 1
    /\ answer.kind = "status"
    /\ answer.status = "optimal_inaccurate"

\* C24: a mean-variance problem with risk_aversion below 1e-4 carries a
\* low-lambda flag, and a backend that did not converge on it does not trigger
\* the fallback.
C24_LowLambdaFlaggedAndNotFailed ==
    LowLambdaNotConverged
        => ("low_lambda" \in DOMAIN problem /\ exit # "fallback")

\* ------------------------------------------- claims on the policy engine

\* How many of the violations have this type and name this subject.
CountOf(violations, type, subject) ==
    Cardinality({i \in 1..Len(violations) :
                   violations[i].type = type /\ violations[i].subject = subject})

CountOfType(violations, type) ==
    Cardinality({i \in 1..Len(violations) : violations[i].type = type})

CountryNames == {"US", "RU", "DE", "CH", "IR"}

\* A method was called on an engine whose file loaded to a configuration.
CalledWithConfiguration(op) ==
    pc = "done" /\ req.op = op /\ constructed /\ HasGet(policies)

CountryLimitsCalled == CalledWithConfiguration("check_country_limits")

CountryLimitsReturned == CountryLimitsCalled /\ exit = "Returned"

CountryLimitsOf(pol) == Get(pol, "country_limits", EmptyMapping)

RestrictedCountriesOf(pol) ==
    Get(CountryLimitsOf(pol), "restricted_countries", <<>>)

MinCountriesOf(pol) == Get(CountryLimitsOf(pol), "min_countries", 1)

CountriesIn(invs) == {invs[i].country : i \in 1..Len(invs)}

\* The country_limit and country_diversification parts of the report: one
\* country_limit per country summed strictly above the maximum, one
\* country_diversification exactly when there are too few countries.
LimitAndDiversificationExact ==
    LET limits == CountryLimitsOf(policies.val)
        max_allocation == Get(limits, "max_allocation_per_country", 100)
        invs == req.investments
    IN /\ \A c \in CountryNames :
            CountOf(result, "country_limit", c)
              = IF AllocationOf(invs, "country", c) > max_allocation
                THEN 1 ELSE 0
       /\ CountOfType(result, "country_diversification")
            = IF Cardinality(CountriesIn(invs)) < MinCountriesOf(policies.val)
              THEN 1 ELSE 0
       /\ \A i \in 1..Len(result) :
            /\ result[i].type \in {"country_limit", "restricted_country",
                                   "country_diversification"}
            /\ result[i].type = "restricted_country"
                 => result[i].severity = "critical"

\* C25 as stated: _check_country_limits reports exactly one country_limit per
\* country summed strictly above max_allocation_per_country, one critical
\* restricted_country per restricted country present, one
\* country_diversification iff there are fewer than min_countries countries,
\* and an empty portfolio always yields a country_diversification.
C25_CountryReportExact ==
    CountryLimitsCalled =>
        /\ exit = "Returned"
        /\ LimitAndDiversificationExact
        /\ \A c \in CountryNames :
             CountOf(result, "restricted_country", c)
               = IF InList(c, RestrictedCountriesOf(policies.val))
                    /\ c \in CountriesIn(req.investments)
                 THEN 1 ELSE 0
        /\ req.investments = <<>>
             => CountOfType(result, "country_diversification") = 1

\* C25: as above, with one critical restricted_country per entry of
\* restricted_countries that names a country present (a country listed twice
\* is reported twice), and with an empty portfolio yielding a
\* country_diversification whenever min_countries is at least 1.
C25_CountryReportPerListEntry ==
    CountryLimitsCalled =>
        /\ exit = "Returned"
        /\ LimitAndDiversificationExact
        /\ \A c \in CountryNames :
             CountOf(result, "restricted_country", c)
               = IF c \in CountriesIn(req.investments)
                 THEN Cardinality({i \in 1..Len(RestrictedCountriesOf(policies.val)) :
                                     RestrictedCountriesOf(policies.val)[i] = c})
                 ELSE 0
        /\ (req.investments = <<>> /\ MinCountriesOf(policies.val) >= 1)
             => CountOfType(result, "country_diversification") = 1

\* The report of the test: a country above its limit, a restricted country
\* and too few countries at once.
C25_Witness ==
    /\ CountryLimitsReturned
    /\ CountOfType(result, "country_limit") >= 1
    /\ CountOfType(result, "restricted_country") >= 1
    /\ CountOfType(result, "country_diversification") = 1

SecurityScreenCalled == CalledWithConfiguration("is_security_allowed")

SecurityScreenReturned == SecurityScreenCalled /\ exit = "Returned"

BlacklistOf(pol) ==
    Get(Get(pol, "security_lists", EmptyMapping), "blacklist", EmptyMapping)

CompanyListed(pol, symbol) == InList(symbol, Get(BlacklistOf(pol), "companies", <<>>))

SectorListed(pol, sector) == InList(sector, Get(BlacklistOf(pol), "sectors", <<>>))

ScoreTooLow(pol, esg_score) ==
    esg_score < Get(Get(BlacklistOf(pol), "esg_blacklist", EmptyMapping),
                    "min_esg_score", 0)

\* C26: is_security_allowed answers not-allowed exactly when the symbol is in
\* the company blacklist, the sector is in the sector blacklist or the ESG
\* score is strictly below the blacklist minimum, and the reason is that of the
\* first condition that holds, in the order company, sector, ESG.
C26_ScreenFollowsBlacklist ==
    SecurityScreenCalled =>
        LET company == CompanyListed(policies.val, req.symbol)
            sector == SectorListed(policies.val, req.sector)
            score == ScoreTooLow(policies.val, req.esg_score)
        IN /\ exit = "Returned"
           /\ result[1] = ~(company \/ sector \/ score)
           /\ result[2].text =
                IF company THEN "Security is blacklisted"
                ELSE IF sector THEN "Sector is blacklisted"
                ELSE IF score THEN "ESG score below minimum"
                ELSE "Security is allowed"

\* A security refused for its symbol although its sector and its score would
\* refuse it too.
C26_Witness ==
    /\ SecurityScreenReturned
    /\ CompanyListed(policies.val, req.symbol)
    /\ SectorListed(policies.val, req.sector)
    /\ ScoreTooLow(policies.val, req.esg_score)
    /\ result[1] = FALSE
    /\ result[2].text = "Security is blacklisted"

\* The violation types each check can report.
TypesOfCheck ==
    <<{"country_limit", "restricted_country", "country_diversification"},
      {"theme_limit", "restricted_theme", "required_theme"},
      {"blacklisted_security", "blacklisted_sector", "esg_blacklist"},
      {"portfolio_esg_score", "carbon_intensity", "board_diversity"},
      {"single_security_limit", "sector_concentration"}>>

ViolationTypes == UNION {TypesOfCheck[k] : k \in 1..Len(TypesOfCheck)}

Severities == {"minor", "major", "critical"}

\* The violations of a report that check number k can have produced.
PartOfCheck(violations, k) ==
    SelectSeq(violations, LAMBDA v : v.type \in TypesOfCheck[k])

\* Every violation has a known type and severity, and the report is the
\* reports of the five checks one after the other.
ReportInCheckOrder(violations, pol, invs) ==
    /\ \A i \in 1..Len(violations) :
         /\ violations[i].type \in ViolationTypes
         /\ violations[i].severity \in Severities
    /\ \A i, j \in 1..Len(violations) :
         i < j => \E k, l \in 1..Len(TypesOfCheck) :
                    /\ k <= l
                    /\ violations[i].type \in TypesOfCheck[k]
                    /\ violations[j].type \in TypesOfCheck[l]
    /\ PartOfCheck(violations, 1) = check_country_limits(pol, invs)
    /\ PartOfCheck(violations, 2) = check_theme_limits(pol, invs)
    /\ PartOfCheck(violations, 3) = check_security_lists(pol, invs)
    /\ PartOfCheck(violations, 4) = check_esg_constraints(pol, invs)
    /\ PartOfCheck(violations, 5) = check_risk_management(pol, invs)

\* C27: validate_portfolio returns violations whose types are among the 14
\* known types and whose severities are minor, major or critical, in the order
\* of the five checks (country, theme, security lists, ESG, risk management),
\* and leaves the policies and the investments as they were.
C27_ValidateReportsInOrderWithoutSideEffect ==
    [][(pc = "idle" /\ pc' = "done" /\ req'.op = "validate_portfolio"
          /\ HasGet(policies)) =>
          /\ exit' = "Returned"
          /\ constructed' = constructed
          /\ policies' = policies
          /\ investments' = investments
          /\ req'.investments = investments
          /\ Cardinality(ViolationTypes) = 14
          /\ ReportInCheckOrder(result', policies.val, investments)]_vars

\* A report with violations of at least three of the five checks.
C27_Witness ==
    /\ CalledWithConfiguration("validate_portfolio")
    /\ exit = "Returned"
    /\ Cardinality({k \in 1..Len(TypesOfCheck) :
                      PartOfCheck(result, k) # <<>>}) >= 3

\* The security-list check reports this investment.
ReportedByLists(violations, inv) ==
    \E i \in 1..Len(violations) :
        \/ violations[i].type = "blacklisted_security"
             /\ violations[i].subject = inv.symbol
        \/ violations[i].type = "blacklisted_sector"
             /\ violations[i].subject = inv.sector
        \/ violations[i].type = "esg_blacklist"
             /\ violations[i].subject = inv.symbol

\* C30: for every investment of a checked portfolio, is_security_allowed
\* refuses its symbol, sector and ESG score exactly when _check_security_lists
\* reports a blacklisted_security, blacklisted_sector or esg_blacklist
\* violation for it.
C30_ScreenAgreesWithListCheck ==
    (CalledWithConfiguration("check_security_lists") /\ exit = "Returned") =>
        \A i \in 1..Len(req.investments) :
            LET inv == req.investments[i]
            IN ~is_security_allowed(policies.val, inv.symbol, inv.sector,
                                    inv.esg_score)[1]
                 <=> ReportedByLists(result, inv)

\* ------------------------------------------------ claims on VaR and CVaR

MetricsReturned ==
    /\ pc = "done"
    /\ req.op \in {"metrics", "risk"}
    /\ "var_95" \in DOMAIN result

\* The scenario returns that were averaged into the reported CVaR.
AveragedReturns ==
    IF req.op = "metrics"
    THEN TailAtOrBelow(PortfolioScenarios(req.scenarios, req.weights),
                       result.var_95)
    ELSE SelectSeq([i \in DOMAIN req.portfolio_return |->
                      SignedFloatOf(req.portfolio_return[i], 10)],
                   LAMBDA x : SignedLeq(x, result.var_95))

\* 1e-10 as a float.
RoundingTolerance == Signed(FALSE, RoundDiv(<<1>>, BigPow10(ToleranceDigits)))

\* C21 as stated: the reported CVaR95 is at most the reported VaR95, and at
\* least one scenario was averaged.
C21_CVaRAtMostVaR ==
    MetricsReturned =>
        \E averaged \in {AveragedReturns} :
            /\ averaged # <<>>
            /\ "nan" \notin DOMAIN result.cvar_95
            /\ SignedLeq(result.cvar_95, result.var_95)

\* C21: at least one scenario is averaged, every averaged return is at most
\* the reported VaR95, and the reported CVaR95 is at most the reported VaR95
\* or above it by rounding error only (less than 1e-10).
C21_CVaRAtMostVaRUpToRounding ==
    MetricsReturned =>
        \E averaged \in {AveragedReturns} :
            /\ averaged # <<>>
            /\ "nan" \notin DOMAIN result.cvar_95
            /\ \A i \in 1..Len(averaged) :
                 SignedLeq(averaged[i], result.var_95)
            /\ \/ SignedLeq(result.cvar_95, result.var_95)
               \/ SignedLeq(result.cvar_95,
                            SignedAdd(result.var_95, RoundingTolerance))

\* Of 21 scenarios all were averaged, one of them below the VaR95 and the
\* others equal to it, and the reported CVaR95 is above the VaR95.
C21_Witness ==
    /\ MetricsReturned
    /\ req.op = "metrics"
    /\ Len(req.scenarios[1]) = LongScenarios
    /\ ~SignedLeq(result.cvar_95, result.var_95)
    /\ \E averaged \in {AveragedReturns} :
          /\ Len(averaged) = LongScenarios
          /\ \E i \in 1..LongScenarios : averaged[i] # result.var_95

====
